---------------------------- MODULE Spec2Model ----------------------------
(***************************************************************************)
(* gordo-dataset: partition enumeration (data_provider/partition.py) and   *)
(* the NCS location resolver (data_provider/ncs_lookup.py,                 *)
(* data_provider/ncs_file_type.py).                                        *)
(*                                                                         *)
(* Three specifications share the module:                                  *)
(*   SpecPart    the generator split_by_partitions                         *)
(*   SpecFiles   NcsLookup.files_lookup on one tag directory               *)
(*   Spec        NcsLookup.lookup: asset validation, directory listing,    *)
(*               sequential or thread-pool file resolution                 *)
(* Each specification leaves the variables of the others at their idle     *)
(* values.                                                                 *)
(***************************************************************************)
EXTENDS Integers, Sequences, FiniteSets, TLC

VARIABLES
    \* split_by_partitions (one generator instance)
    partition_by,     \* argument partition_by
    start_period,     \* argument start_period
    end_period,       \* argument end_period
    ppc,              \* position of the generator
    pyear,            \* loop variable year
    pmonth,           \* loop variable month
    pout,             \* partitions yielded so far, in order
    perr              \* exception raised to the consumer, or None

partVars == <<partition_by, start_period, end_period, ppc, pyear, pmonth, pout, perr>>

VARIABLES
    \* the NcsLookup instance and the storage it reads
    storage_files,    \* storage: existing file path -> size in bytes
    ncs_file_types,   \* self.ncs_file_types, in priority order
    max_file_size,    \* self.max_file_size (Nothing: no limit)
    \* one call of files_lookup
    f_tag_dir,        \* argument tag_dir
    f_tag,            \* argument tag
    f_partitions,     \* argument partitions
    f_pc,             \* "call" before the call, "done" after it
    f_result,         \* the TagLocations returned
    f_iter            \* the outcome of iterating over f_result, if it was done

lookupObjVars == <<storage_files, ncs_file_types, max_file_size>>
filesVars == <<f_tag_dir, f_tag, f_partitions, f_pc, f_result, f_iter>>

VARIABLES
    \* the rest of the storage
    storage_ls,       \* the entries a directory listing returns, in order
    storage_denied,   \* names of the directories whose files cannot be stat'ed
    \* one call of lookup
    l_tags,           \* argument tags
    l_base_dir,       \* argument base_dir
    l_partitions,     \* argument partitions
    l_threads,        \* argument threads_count
    l_partitions_iter,  \* what the iterable partitions has yet to produce
    l_partitions_tuple, \* partitions_tuple, <<>> before it is made
    l_pc,             \* position of the generator lookup
    l_err,            \* exception raised to the consumer, or None
    l_specs,          \* asset_path_specs not yet listed
    l_tag_dirs,       \* (tag, tag_dir) pairs yielded by tag_dirs, not yet resolved
    l_futures,        \* the futures of executor.map, in submission order
    l_yielded,        \* TagLocations yielded to the consumer, in order
    l_overtaken,      \* a future completed while an earlier one had not
    n_ls,             \* calls of storage.ls
    n_catalog,        \* calls of asset_config.get_path
    n_files           \* calls of files_lookup

VARIABLES
    r_tag_locations,  \* read_tag_locations: argument tag_locations
    r_dry_run,        \* read_tag_locations: argument dry_run
    r_files,          \* the located files: whether stat and open find them, their rows
    r_pc,             \* position in read_tag_locations
    r_todo,           \* the partitions the loop has still to visit
    r_all,            \* all_partitions
    r_read,           \* the partitions whose file was read, in the order read
    r_combined,       \* combined, as concatenated
    r_result,         \* the returned series
    r_err             \* the exception raised, None if none

readArgs == <<r_tag_locations, r_dry_run, r_files>>
readVars == <<r_pc, r_todo, r_all, r_read, r_combined, r_result, r_err>>

VARIABLES
    j_series,         \* join_timeseries: argument series_iterable
    j_start,          \* argument resampling_startpoint
    j_end,            \* argument resampling_endpoint
    j_resolution,     \* argument resolution, in time units
    j_aggs,           \* argument aggregation_methods
    j_method,         \* argument interpolation_method
    j_limit,          \* argument interpolation_limit, in time units, or None
    j_pc,             \* position in join_timeseries
    j_i,              \* the series the loop is at
    j_padded,         \* the series handed to resample(), for the series resampled
    j_resampled,      \* resampled_series
    j_missing,        \* missing_data_series
    j_metadata,       \* metadata
    j_result,         \* the returned table
    j_err,            \* the exception raised, None if none
    s_time_period,    \* split_period_by_span: argument time_period
    s_time_span,      \* argument time_span
    s_pc,             \* position of the generator split_period_by_span
    s_start_time,     \* start_time
    s_period_end,     \* period_end
    s_current,        \* current
    s_yielded,        \* the periods yielded to the consumer, in order
    s_err,            \* the exception raised, None if none
    c_lookup_for,     \* NcsReader.__init__: argument lookup_for
    c_storage_name,   \* argument storage_name
    c_ncs_lookup,     \* argument ncs_lookup
    c_max_file_size,  \* argument max_file_size
    c_partition_by,   \* argument partition_by
    c_dl_base_path,   \* argument dl_base_path
    c_pc,             \* position of the caller of NcsReader
    c_err,            \* the exception of the constructor, None if none
    self_lookup_for,  \* NcsReader.lookup_for
    self_storage_name,  \* NcsReader.storage_name
    self_ncs_lookup,  \* NcsReader.ncs_lookup
    self_partition_by,  \* NcsReader.partition_by
    t_tag,            \* read_tag_files: argument tag
    t_dry_run,        \* argument dry_run
    t_tag_dir,        \* tag_dir after the loop over tag_dirs_lookup
    t_err,            \* the exception of read_tag_files, None if none
    t_result          \* the series read_tag_files returned

joinArgs == <<j_series, j_start, j_end, j_resolution, j_aggs, j_method, j_limit>>
joinVars == <<j_pc, j_i, j_padded, j_resampled, j_missing, j_metadata, j_result, j_err>>

periodArgs == <<s_time_period, s_time_span>>
periodVars == <<s_pc, s_start_time, s_period_end, s_current, s_yielded, s_err>>
readerArgs == <<c_lookup_for, c_storage_name, c_ncs_lookup, c_max_file_size, c_partition_by,
                c_dl_base_path, t_tag, t_dry_run>>
readerVars == <<c_pc, c_err, self_lookup_for, self_storage_name, self_ncs_lookup,
                self_partition_by, t_tag_dir, t_err, t_result>>

storageVars == <<storage_ls, storage_denied>>
lookupArgs == <<l_tags, l_base_dir, l_partitions, l_threads>>
lookupIter == <<l_partitions_iter, l_partitions_tuple>>
lookupVars == <<l_partitions_iter, l_partitions_tuple, l_pc, l_err, l_specs, l_tag_dirs, l_futures, l_yielded,
                l_overtaken, n_ls, n_catalog, n_files>>

vars == <<partVars, lookupObjVars, filesVars, storageVars, lookupArgs, lookupVars,
          readArgs, readVars, joinArgs, joinVars,
          periodArgs, periodVars, readerArgs, readerVars>>

\* what the steps of one specification leave alone
notPart == <<lookupObjVars, filesVars, storageVars, lookupArgs, lookupVars,
             readArgs, readVars, joinArgs, joinVars,
          periodArgs, periodVars, readerArgs, readerVars>>
notFiles == <<partVars, storageVars, lookupArgs, lookupVars, readArgs, readVars,
              joinArgs, joinVars,
          periodArgs, periodVars, readerArgs, readerVars>>
notLookup == <<partVars, filesVars, lookupObjVars, storageVars, readArgs, readVars,
               joinArgs, joinVars,
          periodArgs, periodVars, readerArgs, readerVars>>
notRead == <<partVars, filesVars, lookupObjVars, storageVars, lookupArgs, lookupVars,
             joinArgs, joinVars,
          periodArgs, periodVars, readerArgs, readerVars>>
notJoin == <<partVars, filesVars, lookupObjVars, storageVars, lookupArgs, lookupVars,
             readArgs, readVars, periodArgs, periodVars, readerArgs, readerVars>>

notPeriod == <<partVars, filesVars, lookupObjVars, storageVars, lookupArgs, lookupVars,
               readArgs, readVars, joinArgs, joinVars, readerArgs, readerVars>>
notReader == <<partVars, filesVars, lookupObjVars, storageVars, lookupArgs, lookupVars, readArgs, readVars,
               joinArgs, joinVars, periodArgs, periodVars>>

None == "None"

\* Optional[T] where T is not a string: None is the empty tuple, a value x
\* the one-element tuple
Nothing == <<>>
Some(x) == <<x>>
Value(o) == o[1]

-----------------------------------------------------------------------------
(* Bounds of the model *)

\* number of calendar years the periods are drawn from
NumYears == 2
\* number of distinct instants modelled inside one month
MaxDay == 2
\* longest configured list of file types
MaxProbes == 2
\* longest list of partitions handed to files_lookup
MaxParts == 2
\* the configured max_file_size, in bytes, when there is one
SizeLimit == 1
\* longest list of sensors handed to lookup
MaxTags == 2
\* longest directory listing
MaxList == 2
\* most rows in one file
MaxRows == 2
\* most samples in one input series of join_timeseries
MaxSamples == 2

(* Program constants *)
FirstYear == 2019
MonthsInYear == 12

Years == FirstYear .. (FirstYear + NumYears - 1)
Months == 1 .. MonthsInYear

-----------------------------------------------------------------------------
(* data_provider/partition.py *)

YearPartition(y) == [kind |-> "YearPartition", year |-> y, month |-> 0]
MonthPartition(y, m) == [kind |-> "MonthPartition", year |-> y, month |-> m]

\* YearPartition.__lt__ / MonthPartition.__lt__ (same variant only)
year_lt(a, b) == a.year < b.year
month_lt(a, b) == IF a.year = b.year THEN a.month < b.month ELSE a.year < b.year
partition_lt(a, b) == IF a.kind = "YearPartition" THEN year_lt(a, b) ELSE month_lt(a, b)

\* datetime values of one calendar (naive, or sharing one tzinfo)
Datetimes == [year : Years, month : Months, day : 1 .. MaxDay]

\* the dates compared by year and month only
dt_gt_YearMonth(a, b) ==
    \/ a.year > b.year
    \/ a.year = b.year /\ a.month > b.month

\* datetime.__gt__
dt_gt(a, b) ==
    \/ a.year > b.year
    \/ a.year = b.year /\ a.month > b.month
    \/ a.year = b.year /\ a.month = b.month /\ a.day > b.day

PartitionByValues == {"YEAR", "MONTH", "OTHER"}

\* the condition of the `continue` in the MONTH branch
month_skipped_NoEndYear(year, month, sp, ep) ==
    \/ (year = sp.year /\ month < sp.month)
    \/ month > ep.month

month_skipped(year, month, sp, ep) ==
    \/ (year = sp.year /\ month < sp.month)
    \/ (year = ep.year /\ month > ep.month)

\* start_period > end_period: ValueError
SplitRaiseRange ==
    /\ ppc = "start"
    /\ dt_gt(start_period, end_period)
    /\ ppc' = "error"
    /\ perr' = "ValueError"
    /\ UNCHANGED <<notPart, partition_by, start_period, end_period, pyear, pmonth, pout>>

\* partition_by is PartitionBy.YEAR: enter range(start.year, end.year + 1)
SplitBeginYear ==
    /\ ppc = "start"
    /\ ~dt_gt(start_period, end_period)
    /\ partition_by = "YEAR"
    /\ ppc' = "year_loop"
    /\ pyear' = start_period.year
    /\ UNCHANGED <<notPart, partition_by, start_period, end_period, pmonth, pout, perr>>

\* partition_by is PartitionBy.MONTH: enter both ranges
SplitBeginMonth ==
    /\ ppc = "start"
    /\ ~dt_gt(start_period, end_period)
    /\ partition_by = "MONTH"
    /\ ppc' = "month_loop"
    /\ pyear' = start_period.year
    /\ pmonth' = 1
    /\ UNCHANGED <<notPart, partition_by, start_period, end_period, pout, perr>>

\* neither member of the enum: ValueError
SplitRaiseUnknown ==
    /\ ppc = "start"
    /\ ~dt_gt(start_period, end_period)
    /\ partition_by \notin {"YEAR", "MONTH"}
    /\ ppc' = "error"
    /\ perr' = "ValueError"
    /\ UNCHANGED <<notPart, partition_by, start_period, end_period, pyear, pmonth, pout>>

YearYield ==
    /\ ppc = "year_loop"
    /\ pyear < end_period.year + 1
    /\ pout' = Append(pout, YearPartition(pyear))
    /\ pyear' = pyear + 1
    /\ UNCHANGED <<notPart, partition_by, start_period, end_period, ppc, pmonth, perr>>

YearEnd ==
    /\ ppc = "year_loop"
    /\ ~(pyear < end_period.year + 1)
    /\ ppc' = "done"
    /\ UNCHANGED <<notPart, partition_by, start_period, end_period, pyear, pmonth, pout, perr>>

\* next (year, month) of the nested ranges
MonthAdvance ==
    IF pmonth < MonthsInYear
    THEN pyear' = pyear /\ pmonth' = pmonth + 1
    ELSE pyear' = pyear + 1 /\ pmonth' = 1

MonthSkip ==
    /\ ppc = "month_loop"
    /\ pyear < end_period.year + 1
    /\ month_skipped(pyear, pmonth, start_period, end_period)
    /\ MonthAdvance
    /\ UNCHANGED <<notPart, partition_by, start_period, end_period, ppc, pout, perr>>

MonthYield ==
    /\ ppc = "month_loop"
    /\ pyear < end_period.year + 1
    /\ ~month_skipped(pyear, pmonth, start_period, end_period)
    /\ pout' = Append(pout, MonthPartition(pyear, pmonth))
    /\ MonthAdvance
    /\ UNCHANGED <<notPart, partition_by, start_period, end_period, ppc, perr>>

MonthEnd ==
    /\ ppc = "month_loop"
    /\ ~(pyear < end_period.year + 1)
    /\ ppc' = "done"
    /\ UNCHANGED <<notPart, partition_by, start_period, end_period, pyear, pmonth, pout, perr>>

PartNext ==
    \/ SplitRaiseRange
    \/ SplitBeginYear
    \/ SplitBeginMonth
    \/ SplitRaiseUnknown
    \/ YearYield
    \/ YearEnd
    \/ MonthSkip
    \/ MonthYield
    \/ MonthEnd


-----------------------------------------------------------------------------
(* data_provider/ncs_file_type.py, data_provider/ncs_lookup.py *)

SensorTag(name, asset) == [name |-> name, asset |-> asset]
Location(path, file_type, partition) ==
    [path |-> path, file_type |-> file_type, partition |-> partition]
TagLocations(tag, locations) == [tag |-> tag, locations |-> locations]

\* the registry ncs_file_types and its keys
TypeNames == {"parquet", "yearly_parquet", "csv"}

\* NcsFileType.file_type: the reader class bound to the finder
file_type(t) == IF t = "csv" THEN "CsvFileType" ELSE "ParquetFileType"
file_extension(t) == IF t = "csv" THEN ".csv" ELSE ".parquet"

\* the property partition_type returning the attribute set in __init__
partition_type_Attribute(t) == "YearPartition"

\* NcsFileType.partition_type of the three finders
partition_type(t) == IF t = "parquet" THEN "MonthPartition" ELSE "YearPartition"

\* NcsFileType.check_partition
check_partition(t, partition) == partition.kind = partition_type(t)

\* NcsLookup.quote_tag_name: urllib quote(tag_name, safe=" ") on the
\* modelled names ("/" is escaped, a space is kept, letters and digits stay)
quote_tag_name(name) ==
    CASE name = "tag/2" -> "tag%2F2"
      [] OTHER -> name

\* NcsFileType.paths for one partition: the path relative to the tag
\* directory. sub is the directory part, the file name is
\* <name>_<year>[<month:02d>]<ext>; month 0 stands for a name without month.
paths(t, tag_name, partition) ==
    CASE t = "parquet" ->
           [sub |-> <<"parquet", partition.year>>, name |-> tag_name,
            year |-> partition.year, month |-> partition.month,
            ext |-> file_extension(t)]
      [] t = "yearly_parquet" ->
           [sub |-> <<"parquet">>, name |-> tag_name,
            year |-> partition.year, month |-> 0, ext |-> file_extension(t)]
      [] t = "csv" ->
           [sub |-> <<>>, name |-> tag_name,
            year |-> partition.year, month |-> 0, ext |-> file_extension(t)]

\* storage.join(tag_dir, path)
join(tag_dir, path) ==
    [dir |-> tag_dir, sub |-> path.sub, name |-> path.name,
     year |-> path.year, month |-> path.month, ext |-> path.ext]

\* storage.exists and storage.info(path).size
exists(fs, full_path) == full_path \in DOMAIN fs
info_size(fs, full_path) == fs[full_path]

\* _validate_file with the comparison size >= max_file_size
validate_file_Ge(fs, max, full_path) ==
    IF max # Nothing THEN ~(info_size(fs, full_path) >= Value(max)) ELSE TRUE

\* NcsLookup._validate_file
validate_file(fs, max, full_path) ==
    IF max # Nothing THEN ~(info_size(fs, full_path) > Value(max)) ELSE TRUE

\* the condition guarding the assignment of locations[partition]
file_found(fs, max, full_path) ==
    exists(fs, full_path) /\ validate_file(fs, max, full_path)

\* the loop over ncs_file_types without its two breaks: the last file type
\* having a file wins
find_location_NoBreak(fs, max, types, j, tag_dir, tag_name, partition) ==
    LET hit(k) == /\ check_partition(types[k], partition)
                  /\ file_found(fs, max, join(tag_dir, paths(types[k], tag_name, partition)))
        hits == {k \in j .. Len(types) : hit(k)}
        last == CHOOSE k \in hits : \A h \in hits : h <= k
    IN  IF hits = {} THEN Nothing
        ELSE Some(Location(join(tag_dir, paths(types[last], tag_name, partition)),
                           file_type(types[last]), partition))

\* the loop over ncs_file_types ending at the first file type that has a
\* file, whether the file is accepted or too large
RECURSIVE find_location_StopAtRejected(_, _, _, _, _, _, _)
find_location_StopAtRejected(fs, max, types, j, tag_dir, tag_name, partition) ==
    IF j > Len(types) THEN Nothing
    ELSE LET candidate == join(tag_dir, paths(types[j], tag_name, partition))
         IN  IF check_partition(types[j], partition) /\ exists(fs, candidate)
             THEN IF validate_file(fs, max, candidate)
                  THEN Some(Location(candidate, file_type(types[j]), partition))
                  ELSE Nothing
             ELSE find_location_StopAtRejected(fs, max, types, j + 1, tag_dir,
                                               tag_name, partition)

\* files_lookup, the loop over ncs_file_types from index j for one
\* partition: the Location found, or Nothing
RECURSIVE find_location(_, _, _, _, _, _, _)
find_location(fs, max, types, j, tag_dir, tag_name, partition) ==
    IF j > Len(types) THEN Nothing
    ELSE LET full_path == join(tag_dir, paths(types[j], tag_name, partition))
         IN  IF /\ check_partition(types[j], partition)
                /\ file_found(fs, max, full_path)
             THEN Some(Location(full_path, file_type(types[j]), partition))
             ELSE find_location(fs, max, types, j + 1, tag_dir, tag_name,
                                partition)

\* files_lookup, the loop over partitions from index i with the dict
\* locations built so far
RECURSIVE collect_locations(_, _, _, _, _, _, _, _)
collect_locations(fs, max, types, tag_dir, tag_name, partitions, i, locations) ==
    IF i > Len(partitions) THEN locations
    ELSE LET partition == partitions[i]
             found == find_location(fs, max, types, 1, tag_dir, tag_name, partition)
             next == IF found = Nothing THEN locations
                     ELSE (partition :> Value(found)) @@ locations
         IN  collect_locations(fs, max, types, tag_dir, tag_name, partitions,
                               i + 1, next)

\* NcsLookup.files_lookup
files_lookup(fs, max, types, tag_dir, tag, partitions) ==
    LET locations == collect_locations(fs, max, types, tag_dir,
                                       quote_tag_name(tag.name), partitions,
                                       1, <<>>)
    IN  TagLocations(tag, IF DOMAIN locations # {} THEN Some(locations) ELSE Nothing)

\* TagLocations.available
available(tl) == tl.locations # Nothing

\* sequences without repetition over S of length at most n
RECURSIVE InjSeqs(_, _)
InjSeqs(S, n) ==
    IF n = 0 THEN {<<>>}
    ELSE LET shorter == InjSeqs(S, n - 1)
         IN  shorter \cup
             {Append(s, x) : <<s, x>> \in
                 {pr \in shorter \X S : \A i \in 1 .. Len(pr[1]) : pr[1][i] # pr[2]}}

RECURSIVE SeqsUpTo(_, _)
SeqsUpTo(S, n) ==
    IF n = 0 THEN {<<>>}
    ELSE LET shorter == SeqsUpTo(S, n - 1)
         IN  shorter \cup {Append(s, x) : <<s, x>> \in shorter \X S}

\* the partitions files_lookup is asked for
FilePartitions ==
    {YearPartition(FirstYear), YearPartition(FirstYear + 1),
     MonthPartition(FirstYear + 1, 2)}

\* the layout of the data lake: monthly files lie below parquet/<year>/,
\* yearly files below parquet/ (parquet) or in the tag directory (csv)
StoredAs(t, partition) == (t = "parquet") <=> (partition.kind = "MonthPartition")

FileTag == SensorTag("tag/2", "asset")
FileTagDir == <<"path", quote_tag_name(FileTag.name)>>

\* every path a file type can build below tag_dir for one tag
CandidatePaths(tag_dir, tag_name) ==
    {join(tag_dir, paths(t, tag_name, p)) :
        <<t, p>> \in {tp \in TypeNames \X FilePartitions : StoredAs(tp[1], tp[2])}}

FileSizes == {SizeLimit, SizeLimit + 1}

\* every content of a set of paths: which files exist, and their sizes
Contents(candidates) == UNION {[S -> FileSizes] : S \in SUBSET candidates}

\* one call of files_lookup
FilesLookupCall ==
    /\ f_pc = "call"
    /\ f_result' = files_lookup(storage_files, max_file_size, ncs_file_types,
                                f_tag_dir, f_tag, f_partitions)
    /\ f_pc' = "done"
    /\ UNCHANGED <<notFiles, f_tag_dir, f_tag, f_partitions, f_iter, lookupObjVars>>

-----------------------------------------------------------------------------
(* data_provider/ncs_lookup.py: directories of the tags *)

NCS_READER_NAME == "ncs_reader"
PathSpec(reader, base_dir, path) == [reader |-> reader, base_dir |-> base_dir, path |-> path]

\* asset_config.get_path(storage_name, asset): the asset catalog
get_path(asset) ==
    CASE asset = "asset" -> Some(PathSpec("ncs_reader", "", "path"))
      [] asset = "asset1" -> Some(PathSpec("ncs_reader", "", "path1"))
      [] asset = "asset5" -> Some(PathSpec("iroc_reader", "", "path5"))
      [] OTHER -> Nothing

\* PathSpec.full_path(storage): base_dir joined with path, one of them empty
path_spec_full_path(path_spec) ==
    IF path_spec.path = "" THEN path_spec.base_dir ELSE path_spec.path

\* storage.ls(base_dir): (path, file_info) pairs
ls(base_dir) ==
    [i \in 1 .. Len(storage_ls) |->
        [path |-> <<base_dir, storage_ls[i].name>>, isdir |-> storage_ls[i].isdir]]

\* storage.split(path)[1]
split_file_name(path) == path[2]

\* `not tag.asset`, `not base_dir`
falsy(x) == x \in {None, ""}

\* the reader check left out
reader_mismatch_Never(path_spec) == FALSE

\* path_spec.reader != NCS_READER_NAME
reader_mismatch(path_spec) == path_spec.reader # NCS_READER_NAME

\* position of a key in an insertion-ordered dict, 0 when absent
dict_index(d, key) ==
    IF \E i \in 1 .. Len(d) : d[i].key = key
    THEN CHOOSE i \in 1 .. Len(d) : d[i].key = key
    ELSE 0

\* del d[key]
dict_del(d, k) == SubSeq(d, 1, k - 1) \o SubSeq(d, k + 1, Len(d))

\* assets_config_tags_lookup: the OrderedDict tag_by_assets, from tags[i] on
RECURSIVE tag_by_assets(_, _, _)
tag_by_assets(tags, i, d) ==
    IF i > Len(tags) THEN d
    ELSE LET k == dict_index(d, tags[i].asset)
         IN  tag_by_assets(tags, i + 1,
                 IF k = 0 THEN Append(d, [key |-> tags[i].asset, tags |-> <<tags[i]>>])
                 ELSE [d EXCEPT ![k].tags = Append(@, tags[i])])

\* assets_config_tags_lookup: the loop over tag_by_assets.items() from the
\* k-th asset on. err is the exception raised, calls the get_path calls made
RECURSIVE path_specs(_, _, _)
path_specs(groups, k, acc) ==
    IF k > Len(groups) THEN [err |-> None, specs |-> acc, calls |-> Len(groups)]
    ELSE LET path_spec == get_path(groups[k].key)
         IN  IF path_spec = Nothing
             THEN [err |-> "ValueError", specs |-> <<>>, calls |-> k]
             ELSE IF reader_mismatch(Value(path_spec))
             THEN [err |-> "ValueError", specs |-> <<>>, calls |-> k]
             ELSE path_specs(groups, k + 1,
                      Append(acc, [root |-> path_spec_full_path(Value(path_spec)),
                                   tags |-> groups[k].tags]))

\* assets_config_tags_lookup up to its first yield: asset_path_specs
asset_path_specs(tags, base_dir) ==
    IF falsy(base_dir)
    THEN IF \E i \in 1 .. Len(tags) : falsy(tags[i].asset)
         THEN [err |-> "ValueError", specs |-> <<>>, calls |-> 0]
         ELSE path_specs(tag_by_assets(tags, 1, <<>>), 1, <<>>)
    ELSE [err |-> None,
          specs |-> <<[root |-> path_spec_full_path(PathSpec(NCS_READER_NAME, base_dir, "")),
                       tags |-> tags]>>,
          calls |-> 0]

\* tag_dirs_lookup: the dict tags, quoted name -> tag, from tag_list[i] on
RECURSIVE tags_dict(_, _, _)
tags_dict(tag_list, i, d) ==
    IF i > Len(tag_list) THEN d
    ELSE LET key == quote_tag_name(tag_list[i].name)
             k == dict_index(d, key)
         IN  tags_dict(tag_list, i + 1,
                 IF k = 0 THEN Append(d, [key |-> key, tag |-> tag_list[i]])
                 ELSE [d EXCEPT ![k].tag = tag_list[i]])

\* tag_dirs_lookup: the loop over the listing from entry i on, then the
\* loop over the tags left in the dict
RECURSIVE scan_listing(_, _, _, _)
scan_listing(listing, i, d, out) ==
    IF i > Len(listing)
    THEN out \o [j \in 1 .. Len(d) |-> [tag |-> d[j].tag, dir |-> Nothing]]
    ELSE LET k == IF listing[i].isdir
                  THEN dict_index(d, split_file_name(listing[i].path))
                  ELSE 0
         IN  IF k # 0
             THEN scan_listing(listing, i + 1, dict_del(d, k),
                      Append(out, [tag |-> d[k].tag, dir |-> Some(listing[i].path)]))
             ELSE scan_listing(listing, i + 1, d, out)

\* the pairs yielded in the order of tag_list
tag_dirs_lookup_InputOrder(base_dir, tag_list) ==
    LET found == scan_listing(ls(base_dir), 1, tags_dict(tag_list, 1, <<>>), <<>>)
        at(i) == CHOOSE k \in 1 .. Len(found) :
                     quote_tag_name(found[k].tag.name) = quote_tag_name(tag_list[i].name)
        kept == {i \in 1 .. Len(tag_list) :
                     \A j \in i + 1 .. Len(tag_list) :
                         quote_tag_name(tag_list[j].name) # quote_tag_name(tag_list[i].name)}
        nth(n) == CHOOSE i \in kept : Cardinality({j \in kept : j < i}) = n - 1
    IN  [n \in 1 .. Cardinality(kept) |-> found[at(nth(n))]]

\* NcsLookup.tag_dirs_lookup: the (tag, tag_dir) pairs in the order yielded
tag_dirs_lookup(base_dir, tag_list) ==
    scan_listing(ls(base_dir), 1, tags_dict(tag_list, 1, <<>>), <<>>)

-----------------------------------------------------------------------------
(* data_provider/ncs_lookup.py: lookup *)

\* storage.exists / storage.info raising (an error other than not-found)
\* for the files of a directory
storage_raises(tag_dir, partitions) ==
    /\ split_file_name(tag_dir) \in storage_denied
    /\ \E i \in 1 .. Len(partitions), j \in 1 .. Len(ncs_file_types) :
          check_partition(ncs_file_types[j], partitions[i])

\* files_lookup as called by lookup: the exception raised, or the value
files_lookup_call(tag_dir, tag, partitions) ==
    IF storage_raises(tag_dir, partitions)
    THEN [raised |-> TRUE, value |-> TagLocations(tag, Nothing)]
    ELSE [raised |-> FALSE,
          value |-> files_lookup(storage_files, max_file_size, ncs_file_types,
                                 tag_dir, tag, partitions)]

\* the mapper catching the exception of files_lookup
thread_pool_lookup_mapper_Isolated(tag_dirs, partitions) ==
    IF tag_dirs.dir # Nothing /\ ~storage_raises(Value(tag_dirs.dir), partitions)
    THEN files_lookup_call(Value(tag_dirs.dir), tag_dirs.tag, partitions)
    ELSE [raised |-> FALSE, value |-> TagLocations(tag_dirs.tag, Nothing)]

\* NcsLookup._thread_pool_lookup_mapper
thread_pool_lookup_mapper(tag_dirs, partitions) ==
    IF tag_dirs.dir # Nothing
    THEN files_lookup_call(Value(tag_dirs.dir), tag_dirs.tag, partitions)
    ELSE [raised |-> FALSE, value |-> TagLocations(tag_dirs.tag, Nothing)]

\* lookup, the body of the sequential loop
sequential_lookup(tag_dirs, partitions) ==
    IF tag_dirs.dir # Nothing
    THEN files_lookup_call(Value(tag_dirs.dir), tag_dirs.tag, partitions)
    ELSE [raised |-> FALSE, value |-> TagLocations(tag_dirs.tag, Nothing)]

\* the threads_count check without `threads_count < 1`
invalid_threads_count_Falsy(threads_count) ==
    IF threads_count = Nothing THEN TRUE
    ELSE Value(threads_count) = 0

\* `not threads_count or threads_count < 1`
invalid_threads_count(threads_count) ==
    IF threads_count = Nothing THEN TRUE
    ELSE Value(threads_count) = 0 \/ Value(threads_count) < 1

\* multi_thread = threads_count > 1
\* tuple(partitions): every item the iterable has yet to produce, in order
tuple(iterable) == [i \in 1 .. Len(iterable) |-> iterable[i]]

\* the iterable after it was iterated to its end
exhausted(iterable) == SubSeq(iterable, Len(iterable) + 1, Len(iterable))

\* a mapper argument that iterates the argument partitions
partitions_inf_iterator_Argument(partitions_tuple, partitions) == partitions

\* NcsLookup._partitions_inf_iterator: what every call of the mapper is given
partitions_inf_iterator(partitions_tuple, partitions) == partitions_tuple

multi_thread == IF l_threads = Nothing THEN FALSE ELSE Value(l_threads) > 1

Unfinished == {"pending", "running"}
Completed == {"done", "failed"}

\* results handed out as the futures complete
next_future_Completed(futures) ==
    LET ready == {i \in 1 .. Len(futures) : futures[i].state \in Completed}
        open == {i \in 1 .. Len(futures) : futures[i].state # "yielded"}
    IN  IF ready # {} THEN CHOOSE i \in ready : \A j \in ready : j <= i
        ELSE IF open # {} THEN CHOOSE i \in open : \A j \in open : i <= j
        ELSE 0

\* Executor.map, result_iterator: the future whose result is awaited next,
\* 0 when every result was handed out
next_future(futures) ==
    LET open == {i \in 1 .. Len(futures) : futures[i].state # "yielded"}
    IN  IF open # {} THEN CHOOSE i \in open : \A j \in open : i <= j
        ELSE 0

Running(futures) == {i \in 1 .. Len(futures) : futures[i].state = "running"}

\* a pool that starts a thread for every submitted call
idle_worker_Unbounded(futures, max_workers) == TRUE

\* ThreadPoolExecutor(max_workers=threads_count): a thread is free
idle_worker(futures, max_workers) == Cardinality(Running(futures)) < max_workers

\* threads_count < 1, None or 0: ConfigException at the first next()
LookupRaiseConfig ==
    /\ l_pc = "call"
    /\ invalid_threads_count(l_threads)
    /\ l_pc' = "error"
    /\ l_err' = "ConfigException"
    /\ UNCHANGED <<notLookup, lookupArgs, lookupIter, l_specs, l_tag_dirs, l_futures,
                   l_yielded, l_overtaken, n_ls, n_catalog, n_files>>

\* the generator tag_dirs is created, partitions become a tuple
LookupBegin ==
    /\ l_pc = "call"
    /\ ~invalid_threads_count(l_threads)
    /\ l_pc' = "tag_dirs"
    /\ l_partitions_tuple' = tuple(l_partitions_iter)
    /\ l_partitions_iter' = exhausted(l_partitions_iter)
    /\ UNCHANGED <<notLookup, lookupArgs, l_err, l_specs, l_tag_dirs, l_futures,
                   l_yielded, l_overtaken, n_ls, n_catalog, n_files>>

\* first next() of tag_dirs: an empty asset, an unknown asset or another
\* reader raises ValueError (out of executor.map too)
AssetsRaise ==
    /\ l_pc = "tag_dirs"
    /\ LET r == asset_path_specs(l_tags, l_base_dir)
       IN  /\ r.err # None
           /\ l_err' = r.err
           /\ n_catalog' = n_catalog + r.calls
    /\ l_pc' = "error"
    /\ UNCHANGED <<notLookup, lookupArgs, lookupIter, l_specs, l_tag_dirs, l_futures,
                   l_yielded, l_overtaken, n_ls, n_files>>

\* first next() of tag_dirs: asset_path_specs is complete
AssetsResolve ==
    /\ l_pc = "tag_dirs"
    /\ LET r == asset_path_specs(l_tags, l_base_dir)
       IN  /\ r.err = None
           /\ l_specs' = r.specs
           /\ n_catalog' = n_catalog + r.calls
    /\ l_pc' = "listing"
    /\ UNCHANGED <<notLookup, lookupArgs, lookupIter, l_err, l_tag_dirs, l_futures,
                   l_yielded, l_overtaken, n_ls, n_files>>

\* sequential: tag_dirs lists the next root when the loop asks for a pair
SeqListGroup ==
    /\ l_pc = "listing"
    /\ ~multi_thread
    /\ l_tag_dirs = <<>>
    /\ l_specs # <<>>
    /\ l_tag_dirs' = tag_dirs_lookup(Head(l_specs).root, Head(l_specs).tags)
    /\ l_specs' = Tail(l_specs)
    /\ n_ls' = n_ls + 1
    /\ UNCHANGED <<notLookup, lookupArgs, lookupIter, l_pc, l_err, l_futures, l_yielded,
                   l_overtaken, n_catalog, n_files>>

\* sequential: one pair resolved and its TagLocations yielded
SeqYield ==
    /\ l_pc = "listing"
    /\ ~multi_thread
    /\ l_tag_dirs # <<>>
    /\ LET r == sequential_lookup(Head(l_tag_dirs), l_partitions_tuple)
       IN  /\ ~r.raised
           /\ l_yielded' = Append(l_yielded, r.value)
    /\ l_tag_dirs' = Tail(l_tag_dirs)
    /\ n_files' = n_files + (IF Head(l_tag_dirs).dir # Nothing THEN 1 ELSE 0)
    /\ UNCHANGED <<notLookup, lookupArgs, lookupIter, l_pc, l_err, l_specs, l_futures,
                   l_overtaken, n_ls, n_catalog>>

\* sequential: files_lookup raises, the exception leaves the generator
SeqRaise ==
    /\ l_pc = "listing"
    /\ ~multi_thread
    /\ l_tag_dirs # <<>>
    /\ sequential_lookup(Head(l_tag_dirs), l_partitions_tuple).raised
    /\ l_pc' = "error"
    /\ l_err' = "StorageError"
    /\ n_files' = n_files + 1
    /\ UNCHANGED <<notLookup, lookupArgs, lookupIter, l_specs, l_tag_dirs, l_futures,
                   l_yielded, l_overtaken, n_ls, n_catalog>>

\* sequential: tag_dirs is exhausted
SeqDone ==
    /\ l_pc = "listing"
    /\ ~multi_thread
    /\ l_tag_dirs = <<>>
    /\ l_specs = <<>>
    /\ l_pc' = "done"
    /\ UNCHANGED <<notLookup, lookupArgs, lookupIter, l_err, l_specs, l_tag_dirs, l_futures,
                   l_yielded, l_overtaken, n_ls, n_catalog, n_files>>

\* executor.map consumes tag_dirs: the next root is listed and one future
\* is submitted for each of its pairs
MapListGroup ==
    /\ l_pc = "listing"
    /\ multi_thread
    /\ l_specs # <<>>
    /\ LET pairs == tag_dirs_lookup(Head(l_specs).root, Head(l_specs).tags)
       IN  l_futures' = l_futures \o
               [i \in 1 .. Len(pairs) |->
                   [tag_dirs |-> pairs[i], state |-> "pending",
                    value |-> TagLocations(pairs[i].tag, Nothing)]]
    /\ l_specs' = Tail(l_specs)
    /\ n_ls' = n_ls + 1
    /\ UNCHANGED <<notLookup, lookupArgs, lookupIter, l_pc, l_err, l_tag_dirs, l_yielded,
                   l_overtaken, n_catalog, n_files>>

\* a worker of the pool takes the oldest pending future
WorkerStart(i) ==
    /\ l_pc \in {"listing", "draining"}
    /\ l_futures[i].state = "pending"
    /\ \A j \in 1 .. i - 1 : l_futures[j].state # "pending"
    /\ idle_worker(l_futures, Value(l_threads))
    /\ l_futures' = [l_futures EXCEPT ![i].state = "running"]
    /\ UNCHANGED <<notLookup, lookupArgs, lookupIter, l_pc, l_err, l_specs, l_tag_dirs,
                   l_yielded, l_overtaken, n_ls, n_catalog, n_files>>

\* the worker's call of the mapper returns or raises
WorkerFinish(i) ==
    /\ l_pc \in {"listing", "draining"}
    /\ l_futures[i].state = "running"
    /\ LET r == thread_pool_lookup_mapper(l_futures[i].tag_dirs,
                                           partitions_inf_iterator(l_partitions_tuple, l_partitions_iter))
       IN  l_futures' = [l_futures EXCEPT
               ![i].state = IF r.raised THEN "failed" ELSE "done",
               ![i].value = r.value]
    /\ l_overtaken' = (l_overtaken \/
                       \E j \in 1 .. i - 1 : l_futures[j].state \in Unfinished)
    /\ n_files' = n_files + (IF l_futures[i].tag_dirs.dir # Nothing THEN 1 ELSE 0)
    /\ UNCHANGED <<notLookup, lookupArgs, lookupIter, l_pc, l_err, l_specs, l_tag_dirs,
                   l_yielded, n_ls, n_catalog>>

\* the result iterator hands out the awaited result
MapYield ==
    /\ l_pc = "listing"
    /\ multi_thread
    /\ l_specs = <<>>
    /\ LET i == next_future(l_futures)
       IN  /\ i # 0
           /\ l_futures[i].state = "done"
           /\ l_yielded' = Append(l_yielded, l_futures[i].value)
           /\ l_futures' = [l_futures EXCEPT ![i].state = "yielded"]
    /\ UNCHANGED <<notLookup, lookupArgs, lookupIter, l_pc, l_err, l_specs, l_tag_dirs,
                   l_overtaken, n_ls, n_catalog, n_files>>

\* the awaited future failed: its exception is raised, the futures not yet
\* started are cancelled, the executor shuts down
MapRaise ==
    /\ l_pc = "listing"
    /\ multi_thread
    /\ l_specs = <<>>
    /\ LET i == next_future(l_futures)
       IN  /\ i # 0
           /\ l_futures[i].state = "failed"
    /\ l_futures' = [j \in 1 .. Len(l_futures) |->
                        IF l_futures[j].state = "pending"
                        THEN [l_futures[j] EXCEPT !.state = "cancelled"]
                        ELSE l_futures[j]]
    /\ l_pc' = "draining"
    /\ l_err' = "StorageError"
    /\ UNCHANGED <<notLookup, lookupArgs, lookupIter, l_specs, l_tag_dirs, l_yielded,
                   l_overtaken, n_ls, n_catalog, n_files>>

\* shutdown(wait=True) returns, the exception reaches the consumer
MapDrained ==
    /\ l_pc = "draining"
    /\ Running(l_futures) = {}
    /\ l_pc' = "error"
    /\ UNCHANGED <<notLookup, lookupArgs, lookupIter, l_err, l_specs, l_tag_dirs, l_futures,
                   l_yielded, l_overtaken, n_ls, n_catalog, n_files>>

\* every result was handed out: the executor shuts down
MapDone ==
    /\ l_pc = "listing"
    /\ multi_thread
    /\ l_specs = <<>>
    /\ next_future(l_futures) = 0
    /\ l_pc' = "done"
    /\ UNCHANGED <<notLookup, lookupArgs, lookupIter, l_err, l_specs, l_tag_dirs, l_futures,
                   l_yielded, l_overtaken, n_ls, n_catalog, n_files>>

Next ==
    \/ LookupRaiseConfig
    \/ LookupBegin
    \/ AssetsRaise
    \/ AssetsResolve
    \/ SeqListGroup
    \/ SeqYield
    \/ SeqRaise
    \/ SeqDone
    \/ MapListGroup
    \/ \E i \in 1 .. Len(l_futures) : WorkerStart(i)
    \/ \E i \in 1 .. Len(l_futures) : WorkerFinish(i)
    \/ MapYield
    \/ MapRaise
    \/ MapDrained
    \/ MapDone

\* the sensors, the listing entries and the thread counts lookup is tried on
LookupTags ==
    {SensorTag("tag1", "asset"), SensorTag("tag/2", "asset"),
     SensorTag("tag1", "asset1"), SensorTag("tag/2", ""),
     SensorTag("tag/2", "asset10"), SensorTag("tag/2", "asset5")}

ListingEntries ==
    {[name |-> "tag1", isdir |-> TRUE], [name |-> "tag%2F2", isdir |-> TRUE],
     [name |-> "tag1", isdir |-> FALSE], [name |-> "TAG1", isdir |-> TRUE]}

\* more sensors than the pool of two threads has workers
PoolLoads ==
    {<<SensorTag("tag1", "asset"), SensorTag("tag/2", "asset"), SensorTag("tag1", "asset1")>>}

ThreadCounts == {Nothing} \cup {Some(n) : n \in {-1, 0, 1, 2, 10}}

LookupPartitions == <<YearPartition(FirstYear), YearPartition(FirstYear + 1)>>

\* the files below the listed directories of each root
TreeFiles(root) ==
    CASE root = "path" ->
           {<<"yearly_parquet", LookupPartitions[2], SizeLimit>>,
            <<"csv", LookupPartitions[2], SizeLimit>>,
            <<"yearly_parquet", LookupPartitions[1], SizeLimit + 1>>}
      [] root = "path1" -> {<<"csv", LookupPartitions[1], SizeLimit>>}
      [] OTHER -> {<<"csv", LookupPartitions[2], SizeLimit>>}

Roots == {"path", "path1", "base/path"}

Tree(listing) ==
    LET files == {[path |-> join(<<root, listing[i].name>>,
                                 paths(f[1], listing[i].name, f[2])),
                   size |-> f[3]] :
                     <<root, i, f>> \in
                       {x \in Roots \X (1 .. Len(listing)) \X UNION {TreeFiles(r) : r \in Roots} :
                           listing[x[2]].isdir /\ x[3] \in TreeFiles(x[1])}}
    IN  [p \in {f.path : f \in files} |-> (CHOOSE f \in files : f.path = p).size]

-----------------------------------------------------------------------------
(* data_provider/ncs_reader.py: read_tag_locations *)

\* remove_status_codes, the default of NcsReader
remove_status_codes == {0, 64, 60, 8, 24, 3, 32768}

\* the largest partition of a non-empty set
min_partition_Max(S) == CHOOSE x \in S : \A y \in S \ {x} : partition_lt(y, x)

\* the smallest partition of a non-empty set
min_partition(S) == CHOOSE x \in S : \A y \in S \ {x} : partition_lt(x, y)

\* sorted(keys)
RECURSIVE sorted_partitions(_)
sorted_partitions(S) ==
    IF S = {} THEN <<>>
    ELSE <<min_partition(S)>> \o sorted_partitions(S \ {min_partition(S)})

\* TagLocations.partitions
partitions(tl) ==
    IF tl.locations = Nothing THEN <<>>
    ELSE sorted_partitions(DOMAIN Value(tl.locations))

\* __lt__ with a partition of the other variant: raise NotImplemented()
lt_raises(a, b) == a.kind # b.kind

\* sorted(keys) raises TypeError: it compares two keys __lt__ raises for
partitions_raises(tl) ==
    /\ tl.locations # Nothing
    /\ \E a, b \in DOMAIN Value(tl.locations) : lt_raises(a, b)

\* TagLocations.__iter__: the triples in the order of partitions()
tag_locations_iter(tl) ==
    [k \in 1 .. Len(partitions(tl)) |->
        <<tl.tag, partitions(tl)[k], Value(tl.locations)[partitions(tl)[k]]>>]

\* the TagLocations returned is asked for its partitions and iterated over
FilesIterate ==
    /\ f_pc = "done"
    /\ f_iter = Nothing
    /\ f_iter' = Some(IF partitions_raises(f_result)
                      THEN [raised |-> "TypeError", partitions |-> <<>>, triples |-> <<>>]
                      ELSE [raised |-> None, partitions |-> partitions(f_result),
                            triples |-> tag_locations_iter(f_result)])
    /\ UNCHANGED <<notFiles, f_tag_dir, f_tag, f_partitions, f_pc, f_result, lookupObjVars>>

FilesNext ==
    \/ FilesLookupCall
    \/ FilesIterate

\* pd.Series(name=..., data=...): the name and the (timestamp, value) items
Series(name, items) == [name |-> name, items |-> items]

\* storage.info(file_path) raises FileNotFoundError
info_not_found(file) == file.state = "info_not_found"

\* storage.open(file_path) raises FileNotFoundError (the file went away
\* after stat)
open_not_found(file) == file.state = "open_not_found"

\* file_type.read_df, the value column renamed to the tag
read_df(file) == file.rows

\* df[~df["Status"].isin(self.remove_status_codes)]
remove_status(df) ==
    LET kept(r) == r.status \notin remove_status_codes
    IN  SelectSeq(df, kept)

is_monotonic_increasing(df) ==
    \A i \in 1 .. Len(df) - 1 : df[i].ts <= df[i + 1].ts

\* df.sort_index(): a frame in index order is left as it is; otherwise the
\* rows are sorted by an unstable sort, rows of equal index in any order
sort_index(df) ==
    IF is_monotonic_increasing(df) THEN {df}
    ELSE {sorted \in {[i \in 1 .. Len(df) |-> df[p[i]]] :
                          p \in {q \in [1 .. Len(df) -> 1 .. Len(df)] :
                                    \A i, j \in 1 .. Len(df) : i # j => q[i] # q[j]}} :
             is_monotonic_increasing(sorted)}

\* pd.concat(all_partitions)
RECURSIVE concat(_)
concat(frames) ==
    IF frames = <<>> THEN <<>> ELSE Head(frames) \o concat(Tail(frames))

\* the rows of the given positions, in order
RECURSIVE take(_, _, _)
take(df, i, keep) ==
    IF i > Len(df) THEN <<>>
    ELSE (IF i \in keep THEN <<df[i]>> ELSE <<>>) \o take(df, i + 1, keep)

\* index.duplicated(keep="first") in place of keep="last"
duplicated_First(df) ==
    {i \in 1 .. Len(df) : \E j \in 1 .. i - 1 : df[j].ts = df[i].ts}

\* combined.index.duplicated(keep="last"): the positions followed by a row
\* of the same index
duplicated(df) ==
    {i \in 1 .. Len(df) : \E j \in i + 1 .. Len(df) : df[j].ts = df[i].ts}

\* combined[~combined.index.duplicated(keep="last")]
drop_duplicated(df) ==
    IF duplicated(df) # {} THEN take(df, 1, (1 .. Len(df)) \ duplicated(df))
    ELSE df

\* combined[tag.name]
column(df) == [i \in 1 .. Len(df) |-> <<df[i].ts, df[i].value>>]

\* the loop stopped at a file that is not found
after_not_found_Stop(todo) == <<>>

\* except FileNotFoundError: the loop goes on with the next partition
after_not_found(todo) == Tail(todo)

\* the file of the partition the loop is at
current_file == r_files[Value(r_tag_locations.locations)[Head(r_todo)].path]

\* tag_locations.partitions() and the iterator are set up
ReadBegin ==
    /\ r_pc = "call"
    /\ r_todo' = partitions(r_tag_locations)
    /\ r_pc' = "loop"
    /\ UNCHANGED <<notRead, readArgs, r_all, r_read, r_combined, r_result, r_err>>

\* stat or open raises FileNotFoundError: the partition is skipped
ReadNotFound ==
    /\ r_pc = "loop"
    /\ r_todo # <<>>
    /\ \/ info_not_found(current_file)
       \/ ~r_dry_run /\ open_not_found(current_file)
    /\ r_todo' = after_not_found(r_todo)
    /\ UNCHANGED <<notRead, readArgs, r_pc, r_all, r_read, r_combined, r_result, r_err>>

\* dry_run: an empty series is returned after the first successful stat
ReadDryRun ==
    /\ r_pc = "loop"
    /\ r_todo # <<>>
    /\ ~info_not_found(current_file)
    /\ r_dry_run
    /\ r_result' = Series(None, <<>>)
    /\ r_pc' = "done"
    /\ UNCHANGED <<notRead, readArgs, r_todo, r_all, r_read, r_combined, r_err>>

\* the file is read, cleaned of the removed status codes, sorted, kept
ReadPartition ==
    /\ r_pc = "loop"
    /\ r_todo # <<>>
    /\ ~info_not_found(current_file)
    /\ ~open_not_found(current_file)
    /\ ~r_dry_run
    /\ \E df \in sort_index(remove_status(read_df(current_file))) :
          r_all' = Append(r_all, df)
    /\ r_read' = Append(r_read, Head(r_todo))
    /\ r_todo' = Tail(r_todo)
    /\ UNCHANGED <<notRead, readArgs, r_pc, r_combined, r_result, r_err>>

\* pd.concat raises on an empty list: an empty series named after the tag
ReadNothing ==
    /\ r_pc = "loop"
    /\ r_todo = <<>>
    /\ r_all = <<>>
    /\ r_result' = Series(r_tag_locations.tag.name, <<>>)
    /\ r_pc' = "done"
    /\ UNCHANGED <<notRead, readArgs, r_todo, r_all, r_read, r_combined, r_err>>

\* the frames are concatenated, duplicated timestamps dropped, the column
\* of the tag returned
ReadCombine ==
    /\ r_pc = "loop"
    /\ r_todo = <<>>
    /\ r_all # <<>>
    /\ r_combined' = concat(r_all)
    /\ r_result' = Series(r_tag_locations.tag.name, column(drop_duplicated(concat(r_all))))
    /\ r_pc' = "done"
    /\ UNCHANGED <<notRead, readArgs, r_todo, r_all, r_read, r_err>>

ReadNext ==
    \/ ReadBegin
    \/ ReadNotFound
    \/ ReadDryRun
    \/ ReadPartition
    \/ ReadNothing
    \/ ReadCombine

\* the tag, the partitions, the rows and the files read_tag_locations is
\* tried on
ReadTag == SensorTag("tag1", "asset")
ReadPartitions == {YearPartition(FirstYear), YearPartition(FirstYear + 1)}
RowTimes == {1, 2}
Rows ==
    {[ts |-> t, value |-> v, status |-> 192] : t \in RowTimes, v \in {10, 20}}
        \cup {[ts |-> t, value |-> 10, status |-> 0] : t \in RowTimes}
FileStates ==
    {[state |-> "ok", rows |-> rows] : rows \in SeqsUpTo(Rows, MaxRows)}
        \cup {[state |-> "info_not_found", rows |-> <<>>],
              [state |-> "open_not_found", rows |-> <<>>]}
ReadPath(partition) ==
    join(<<"path", quote_tag_name(ReadTag.name)>>,
         paths("csv", quote_tag_name(ReadTag.name), partition))
ReadLocations ==
    {Nothing} \cup
    {Some([partition \in S |-> Location(ReadPath(partition), "CsvFileType", partition)]) :
        S \in SUBSET ReadPartitions}

-----------------------------------------------------------------------------
(* utils.py: join_timeseries and _resample *)

\* Instants and durations are whole numbers of one time unit. A series is
\* Series(name, items), items the samples [ts, v] in index order; a value
\* is Some(number) or NaN.
NaN == Nothing
Sample(ts, v) == [ts |-> ts, v |-> v]

\* a series without a number counts as a series without a sample
index_error_OrAllNaN(series) ==
    \A i \in 1 .. Len(series.items) : series.items[i].v = NaN

\* series.index[0] raises IndexError
index_error(series) == series.items = <<>>

\* series.index[0] > startpoint_sametz
after_start(series, resampling_startpoint) ==
    series.items[1].ts > resampling_startpoint

\* the first timestamp is never taken to be before the start point
before_start_Never(series, resampling_startpoint) == FALSE

\* series.index[0] < resampling_startpoint
before_start(series, resampling_startpoint) ==
    series.items[1].ts < resampling_startpoint

\* series.index[-1] < endpoint_sametz
before_end(series, resampling_endpoint) ==
    series.items[Len(series.items)].ts < resampling_endpoint

\* series.index[-1] > endpoint_sametz
after_end(series, resampling_endpoint) ==
    series.items[Len(series.items)].ts > resampling_endpoint

\* startpoint.append(series): one NaN sample at the start point, in front
pad_start(series, resampling_startpoint) ==
    Series(series.name, <<Sample(resampling_startpoint, NaN)>> \o series.items)

\* series.append(endpoint): one NaN sample at the end point, behind
pad_end(series, resampling_endpoint) ==
    Series(series.name, Append(series.items, Sample(resampling_endpoint, NaN)))

\* the left edge of the bucket an instant falls in
bucket(ts, resolution) == (ts \div resolution) * resolution

\* the labels of series.resample(resolution, label="left"): every bucket
\* from the one of the earliest sample to the one of the latest
bucket_labels(series, resolution) ==
    LET stamps == {series.items[i].ts : i \in 1 .. Len(series.items)}
        lo == bucket(CHOOSE t \in stamps : \A u \in stamps : t <= u, resolution)
        hi == bucket(CHOOSE t \in stamps : \A u \in stamps : u <= t, resolution)
    IN  [k \in 1 .. ((hi - lo) \div resolution) + 1 |-> lo + (k - 1) * resolution]

\* one aggregation of the samples of one bucket: NaN samples are skipped,
\* a bucket without a number gives NaN
aggregate(method, series, label, resolution) ==
    LET numbers == {Value(series.items[i].v) :
                       i \in {j \in 1 .. Len(series.items) :
                                 /\ bucket(series.items[j].ts, resolution) = label
                                 /\ series.items[j].v # NaN}}
    IN  IF numbers = {} THEN NaN
        ELSE IF method = "max"
             THEN Some(CHOOSE x \in numbers : \A y \in numbers : y <= x)
             ELSE Some(CHOOSE x \in numbers : \A y \in numbers : x <= y)

\* agg() returns a DataFrame, with one column per method, for a list of
\* methods of any length, and a Series for a method given by name
agg_is_frame(aggregation_methods) == aggregation_methods.list

\* the columns after lines 292-295: (series name, method) when agg returned
\* a DataFrame, the series name alone when it returned a Series
agg_columns(name, aggregation_methods) ==
    IF agg_is_frame(aggregation_methods)
    THEN [k \in 1 .. Len(aggregation_methods.names) |-> <<name, aggregation_methods.names[k]>>]
    ELSE <<<<name>>>>

\* series.resample(resolution, label="left").agg(aggregation_methods) with
\* the columns renamed: a frame [columns, rows], a row [label, cells]
resample_agg(series, resolution, aggregation_methods) ==
    LET labels == bucket_labels(series, resolution)
    IN  [columns |-> agg_columns(series.name, aggregation_methods),
         rows |-> [k \in 1 .. Len(labels) |->
                     [label |-> labels[k],
                      cells |-> [c \in 1 .. Len(aggregation_methods.names) |->
                                    aggregate(aggregation_methods.names[c], series,
                                              labels[k], resolution)]]]]

\* any interpolation method is accepted
valid_method_Any(interpolation_method) == TRUE

\* interpolation_method in ["linear_interpolation", "ffill"]
valid_method(interpolation_method) ==
    interpolation_method \in {"linear_interpolation", "ffill"}

\* the quotient rounded up
fill_limit_Ceil(interpolation_limit, resolution) ==
    IF interpolation_limit = Nothing THEN Nothing
    ELSE Some((Value(interpolation_limit) + resolution - 1) \div resolution)

\* int(Timedelta(interpolation_limit) / Timedelta(resolution)), None for an
\* interpolation_limit of None
fill_limit(interpolation_limit, resolution) ==
    IF interpolation_limit = Nothing THEN Nothing
    ELSE Some(Value(interpolation_limit) \div resolution)

\* limit <= 0
invalid_limit(limit) == IF limit = Nothing THEN FALSE ELSE Value(limit) <= 0

\* position of the last number before position i of a column, 0 if none
last_valid(col, i) ==
    LET before == {j \in 1 .. i - 1 : col[j] # NaN}
    IN  IF before = {} THEN 0 ELSE CHOOSE j \in before : \A k \in before : k <= j

\* position of the first number after position i of a column, 0 if none
next_valid(col, i) ==
    LET after == {j \in i + 1 .. Len(col) : col[j] # NaN}
    IN  IF after = {} THEN 0 ELSE CHOOSE j \in after : \A k \in after : j <= k

\* a NaN at position i is filled: a number precedes it, at most limit
\* positions back
fillable(col, i, limit) ==
    /\ last_valid(col, i) # 0
    /\ IF limit = Nothing THEN TRUE ELSE i - last_valid(col, i) <= Value(limit)

\* col.interpolate(limit=limit): linear in the position between the numbers
\* around a gap, the last number behind the last one; forward only
interpolate(col, limit) ==
    [i \in 1 .. Len(col) |->
        IF col[i] # NaN \/ ~fillable(col, i, limit) THEN col[i]
        ELSE LET p == last_valid(col, i)
                 n == next_valid(col, i)
             IN  IF n = 0 THEN col[p]
                 ELSE Some(Value(col[p])
                           + ((Value(col[n]) - Value(col[p])) * (i - p)) \div (n - p))]

\* col.fillna(method="ffill", limit=limit)
ffill(col, limit) ==
    [i \in 1 .. Len(col) |->
        IF col[i] # NaN \/ ~fillable(col, i, limit) THEN col[i]
        ELSE col[last_valid(col, i)]]

\* lines 313-317 before dropna: every column filled on its own
fill(frame, interpolation_method, limit) ==
    LET col(c) == [k \in 1 .. Len(frame.rows) |-> frame.rows[k].cells[c]]
        filled(c) == IF interpolation_method = "linear_interpolation"
                     THEN interpolate(col(c), limit)
                     ELSE ffill(col(c), limit)
    IN  [columns |-> frame.columns,
         rows |-> [k \in 1 .. Len(frame.rows) |->
                     [label |-> frame.rows[k].label,
                      cells |-> [c \in 1 .. Len(frame.columns) |-> filled(c)[k]]]]]

\* the rows with a NaN are kept
dropna_Keep(frame) == frame

\* frame.dropna(): the rows without any NaN
dropna(frame) ==
    [columns |-> frame.columns,
     rows |-> SelectSeq(frame.rows,
                        LAMBDA row : \A c \in 1 .. Len(row.cells) : row.cells[c] # NaN)]

\* _resample up to the call of resample(): the exception raised, if any,
\* and the padded series
pad(series, resampling_startpoint, resampling_endpoint) ==
    IF index_error(series) THEN [raised |-> "IndexError", series |-> series]
    ELSE IF ~after_start(series, resampling_startpoint)
             /\ before_start(series, resampling_startpoint)
    THEN [raised |-> "RuntimeError", series |-> series]
    ELSE LET started == IF after_start(series, resampling_startpoint)
                        THEN pad_start(series, resampling_startpoint)
                        ELSE series
         IN  IF before_end(started, resampling_endpoint)
             THEN [raised |-> None, series |-> pad_end(started, resampling_endpoint)]
             ELSE IF after_end(started, resampling_endpoint)
             THEN [raised |-> "RuntimeError", series |-> started]
             ELSE [raised |-> None, series |-> started]

\* _resample: the exception raised, if any, the series handed to
\* resample() and the frame returned
resample(series, resampling_startpoint, resampling_endpoint, resolution, aggregation_methods, interpolation_method, interpolation_limit) ==
    LET padded == pad(series, resampling_startpoint, resampling_endpoint)
        resampled == resample_agg(padded.series, resolution, aggregation_methods)
        limit == fill_limit(interpolation_limit, resolution)
    IN  IF padded.raised # None
        THEN [raised |-> padded.raised, padded |-> padded.series, frame |-> None]
        ELSE IF ~valid_method(interpolation_method) \/ invalid_limit(limit)
        THEN [raised |-> "ValueError", padded |-> padded.series, frame |-> None]
        ELSE [raised |-> None, padded |-> padded.series,
              frame |-> dropna(fill(resampled, interpolation_method, limit))]

\* a join that keeps every row of the first frame, NaN where another frame
\* has no such row
concat_inner_First(frames) ==
    LET has(f, label) == \E k \in 1 .. Len(frames[f].rows) : frames[f].rows[k].label = label
        cells(f, label) ==
            IF has(f, label)
            THEN frames[f].rows[CHOOSE k \in 1 .. Len(frames[f].rows) :
                                    frames[f].rows[k].label = label].cells
            ELSE [c \in 1 .. Len(frames[f].columns) |-> NaN]
    IN  [columns |-> concat([f \in 1 .. Len(frames) |-> frames[f].columns]),
         rows |-> [k \in 1 .. Len(frames[1].rows) |->
                     [label |-> frames[1].rows[k].label,
                      cells |-> concat([f \in 1 .. Len(frames) |->
                                           cells(f, frames[1].rows[k].label)])]]]

\* pd.concat(frames, axis=1, join="inner") of at least one frame: the
\* columns side by side in input order, the rows whose label every frame has
concat_inner(frames) ==
    LET has(f, label) == \E k \in 1 .. Len(frames[f].rows) : frames[f].rows[k].label = label
        row(f, label) ==
            frames[f].rows[CHOOSE k \in 1 .. Len(frames[f].rows) :
                               frames[f].rows[k].label = label]
        common == SelectSeq(frames[1].rows,
                            LAMBDA r : \A f \in 1 .. Len(frames) : has(f, r.label))
    IN  [columns |-> concat([f \in 1 .. Len(frames) |-> frames[f].columns]),
         rows |-> [k \in 1 .. Len(common) |->
                     [label |-> common[k].label,
                      cells |-> concat([f \in 1 .. Len(frames) |->
                                           row(f, common[k].label).cells])]]]

\* metadata[key] = value
dict_set(metadata, key, value) ==
    [k \in DOMAIN metadata \cup {key} |-> IF k = key THEN value ELSE metadata[k]]

\* only the last series without data is remembered
append_missing_Last(missing_data_series, name) == <<name>>

\* missing_data_series.append(series.name)
append_missing(missing_data_series, name) == Append(missing_data_series, name)

\* the result of _resample for the series the loop is at
current_resample ==
    resample(j_series[j_i], j_start, j_end, j_resolution, j_aggs, j_method, j_limit)

\* the series is resampled and kept
JoinResampled ==
    /\ j_pc = "loop"
    /\ j_i <= Len(j_series)
    /\ current_resample.raised = None
    /\ j_padded' = Append(j_padded, current_resample.padded)
    /\ j_resampled' = Append(j_resampled, current_resample.frame)
    /\ j_metadata' = dict_set(j_metadata, j_series[j_i].name,
                              [original_length |-> Len(j_series[j_i].items),
                               resampled_length |-> Len(current_resample.frame.rows)])
    /\ j_i' = j_i + 1
    /\ UNCHANGED <<notJoin, joinArgs, j_pc, j_missing, j_result, j_err>>

\* except IndexError: the series is noted as missing data
JoinMissing ==
    /\ j_pc = "loop"
    /\ j_i <= Len(j_series)
    /\ current_resample.raised = "IndexError"
    /\ j_missing' = append_missing(j_missing, j_series[j_i].name)
    /\ j_metadata' = dict_set(j_metadata, j_series[j_i].name,
                              [original_length |-> Len(j_series[j_i].items)])
    /\ j_i' = j_i + 1
    /\ UNCHANGED <<notJoin, joinArgs, j_pc, j_padded, j_resampled, j_result, j_err>>

\* any other exception of _resample leaves join_timeseries
JoinRaise ==
    /\ j_pc = "loop"
    /\ j_i <= Len(j_series)
    /\ current_resample.raised \in {"RuntimeError", "ValueError"}
    /\ j_err' = current_resample.raised
    /\ j_metadata' = dict_set(j_metadata, j_series[j_i].name,
                              [original_length |-> Len(j_series[j_i].items)])
    /\ j_pc' = "raised"
    /\ UNCHANGED <<notJoin, joinArgs, j_i, j_padded, j_resampled, j_missing, j_result>>

\* if missing_data_series: raise InsufficientDataError
JoinInsufficient ==
    /\ j_pc = "loop"
    /\ j_i > Len(j_series)
    /\ j_missing # <<>>
    /\ j_err' = "InsufficientDataError"
    /\ j_pc' = "raised"
    /\ UNCHANGED <<notJoin, joinArgs, j_i, j_padded, j_resampled, j_missing,
                   j_metadata, j_result>>

\* pd.concat of no frame raises ValueError
JoinConcatRaise ==
    /\ j_pc = "loop"
    /\ j_i > Len(j_series)
    /\ j_missing = <<>>
    /\ j_resampled = <<>>
    /\ j_err' = "ValueError"
    /\ j_pc' = "raised"
    /\ UNCHANGED <<notJoin, joinArgs, j_i, j_padded, j_resampled, j_missing,
                   j_metadata, j_result>>

\* the frames are joined, the rows with a NaN dropped, the table returned
JoinReturn ==
    /\ j_pc = "loop"
    /\ j_i > Len(j_series)
    /\ j_missing = <<>>
    /\ j_resampled # <<>>
    /\ j_result' = dropna(concat_inner(j_resampled))
    /\ j_metadata' = dict_set(j_metadata, "aggregate_metadata",
                              [joined_length |-> Len(concat_inner(j_resampled).rows),
                               dropped_na_length |->
                                   Len(dropna(concat_inner(j_resampled)).rows)])
    /\ j_pc' = "done"
    /\ UNCHANGED <<notJoin, joinArgs, j_i, j_padded, j_resampled, j_missing, j_err>>

JoinNext ==
    \/ JoinResampled
    \/ JoinMissing
    \/ JoinRaise
    \/ JoinInsufficient
    \/ JoinConcatRaise
    \/ JoinReturn

\* the inputs of join_timeseries
SeriesNames == <<"Tag 1", "Tag 2">>
SampleTimes == {1, 2, 3, 4}
\* the timestamps at which a NaN is recorded
NaNTimes == {2, 3}
\* a sample is NaN or the value of a ramp at its timestamp
Samples ==
    {Sample(t, Some(12 * t)) : t \in SampleTimes} \cup {Sample(t, NaN) : t \in NaNTimes}
\* the samples of a series, in strictly ascending index order
SeriesItems ==
    {items \in SeqsUpTo(Samples, MaxSamples) :
        \A i \in 1 .. Len(items) - 1 : items[i].ts < items[i + 1].ts}
StartPoints == {1, 2}
EndPoints == {3}
Resolutions == {1, 2}
AggregationMethods ==
    {[list |-> FALSE, names |-> <<"max">>],
     [list |-> TRUE, names |-> <<"max">>],
     [list |-> TRUE, names |-> <<"max", "min">>]}
InterpolationMethods == {"linear_interpolation", "ffill", "cubic"}
InterpolationLimits == {Nothing, Some(1), Some(3)}

-----------------------------------------------------------------------------
(* Specifications *)

\* split_by_partitions called with any arguments
PartInit ==
    /\ partition_by \in PartitionByValues
    /\ start_period \in Datetimes
    /\ end_period \in Datetimes
    /\ ppc = "start"
    /\ pyear = 0
    /\ pmonth = 0
    /\ pout = <<>>
    /\ perr = None
    /\ storage_files = <<>>
    /\ ncs_file_types = <<>>
    /\ max_file_size = Nothing
    /\ f_tag_dir = None
    /\ f_tag = None
    /\ f_partitions = <<>>
    /\ f_pc = "idle"
    /\ f_result = None
    /\ f_iter = Nothing
    /\ storage_ls = <<>>
    /\ storage_denied = {}
    /\ l_tags = <<>>
    /\ l_base_dir = None
    /\ l_partitions = <<>>
    /\ l_partitions_iter = <<>>
    /\ l_partitions_tuple = <<>>
    /\ l_threads = Nothing
    /\ l_pc = "idle"
    /\ l_err = None
    /\ l_specs = <<>>
    /\ l_tag_dirs = <<>>
    /\ l_futures = <<>>
    /\ l_yielded = <<>>
    /\ l_overtaken = FALSE
    /\ n_ls = 0
    /\ n_catalog = 0
    /\ n_files = 0
    /\ r_tag_locations = None
    /\ r_dry_run = FALSE
    /\ r_files = <<>>
    /\ r_pc = "idle"
    /\ r_todo = <<>>
    /\ r_all = <<>>
    /\ r_read = <<>>
    /\ r_combined = <<>>
    /\ r_result = None
    /\ r_err = None
    /\ j_series = <<>>
    /\ j_start = 0
    /\ j_end = 0
    /\ j_resolution = 0
    /\ j_aggs = None
    /\ j_method = None
    /\ j_limit = Nothing
    /\ j_pc = "idle"
    /\ j_i = 0
    /\ j_padded = <<>>
    /\ j_resampled = <<>>
    /\ j_missing = <<>>
    /\ j_metadata = <<>>
    /\ j_result = None
    /\ j_err = None
    /\ s_time_period = None
    /\ s_time_span = None
    /\ s_pc = "idle"
    /\ s_start_time = Nothing
    /\ s_period_end = Nothing
    /\ s_current = Nothing
    /\ s_yielded = <<>>
    /\ s_err = None
    /\ c_lookup_for = Nothing
    /\ c_storage_name = None
    /\ c_ncs_lookup = Nothing
    /\ c_max_file_size = Nothing
    /\ c_partition_by = Nothing
    /\ c_dl_base_path = None
    /\ c_pc = "idle"
    /\ c_err = None
    /\ self_lookup_for = Nothing
    /\ self_storage_name = None
    /\ self_ncs_lookup = Nothing
    /\ self_partition_by = Nothing
    /\ t_tag = None
    /\ t_dry_run = FALSE
    /\ t_tag_dir = Nothing
    /\ t_err = None
    /\ t_result = Nothing

SpecPart == PartInit /\ [][PartNext]_vars

\* files_lookup called on any content of one tag directory
FilesInit ==
    /\ storage_files \in Contents(CandidatePaths(FileTagDir, quote_tag_name(FileTag.name)))
    /\ ncs_file_types \in InjSeqs(TypeNames, MaxProbes)
    /\ max_file_size \in {Nothing, Some(SizeLimit)}
    /\ f_tag_dir = FileTagDir
    /\ f_tag = FileTag
    /\ f_partitions \in SeqsUpTo(FilePartitions, MaxParts)
    /\ f_pc = "call"
    /\ f_result = None
    /\ f_iter = Nothing
    /\ partition_by = None
    /\ start_period = None
    /\ end_period = None
    /\ ppc = "idle"
    /\ pyear = 0
    /\ pmonth = 0
    /\ pout = <<>>
    /\ perr = None
    /\ storage_ls = <<>>
    /\ storage_denied = {}
    /\ l_tags = <<>>
    /\ l_base_dir = None
    /\ l_partitions = <<>>
    /\ l_partitions_iter = <<>>
    /\ l_partitions_tuple = <<>>
    /\ l_threads = Nothing
    /\ l_pc = "idle"
    /\ l_err = None
    /\ l_specs = <<>>
    /\ l_tag_dirs = <<>>
    /\ l_futures = <<>>
    /\ l_yielded = <<>>
    /\ l_overtaken = FALSE
    /\ n_ls = 0
    /\ n_catalog = 0
    /\ n_files = 0
    /\ r_tag_locations = None
    /\ r_dry_run = FALSE
    /\ r_files = <<>>
    /\ r_pc = "idle"
    /\ r_todo = <<>>
    /\ r_all = <<>>
    /\ r_read = <<>>
    /\ r_combined = <<>>
    /\ r_result = None
    /\ r_err = None
    /\ j_series = <<>>
    /\ j_start = 0
    /\ j_end = 0
    /\ j_resolution = 0
    /\ j_aggs = None
    /\ j_method = None
    /\ j_limit = Nothing
    /\ j_pc = "idle"
    /\ j_i = 0
    /\ j_padded = <<>>
    /\ j_resampled = <<>>
    /\ j_missing = <<>>
    /\ j_metadata = <<>>
    /\ j_result = None
    /\ j_err = None
    /\ s_time_period = None
    /\ s_time_span = None
    /\ s_pc = "idle"
    /\ s_start_time = Nothing
    /\ s_period_end = Nothing
    /\ s_current = Nothing
    /\ s_yielded = <<>>
    /\ s_err = None
    /\ c_lookup_for = Nothing
    /\ c_storage_name = None
    /\ c_ncs_lookup = Nothing
    /\ c_max_file_size = Nothing
    /\ c_partition_by = Nothing
    /\ c_dl_base_path = None
    /\ c_pc = "idle"
    /\ c_err = None
    /\ self_lookup_for = Nothing
    /\ self_storage_name = None
    /\ self_ncs_lookup = Nothing
    /\ self_partition_by = Nothing
    /\ t_tag = None
    /\ t_dry_run = FALSE
    /\ t_tag_dir = Nothing
    /\ t_err = None
    /\ t_result = Nothing

SpecFiles == FilesInit /\ [][FilesNext]_vars

\* lookup called with any sensors, listing and threads_count
Init ==
    /\ storage_ls \in SeqsUpTo(ListingEntries, MaxList)
    /\ storage_denied \in SUBSET ({"tag%2F2"} \cap
                                    {storage_ls[i].name : i \in
                                        {k \in 1 .. Len(storage_ls) : storage_ls[k].isdir}})
    /\ storage_files = Tree(storage_ls)
    /\ ncs_file_types = <<"yearly_parquet", "csv">>
    /\ max_file_size = Some(SizeLimit)
    /\ l_tags \in SeqsUpTo(LookupTags, MaxTags) \cup PoolLoads
    /\ l_base_dir \in {None, "base/path"}
    /\ l_partitions = LookupPartitions
    /\ l_partitions_iter = l_partitions
    /\ l_partitions_tuple = <<>>
    /\ l_threads \in ThreadCounts
    /\ l_pc = "call"
    /\ l_err = None
    /\ l_specs = <<>>
    /\ l_tag_dirs = <<>>
    /\ l_futures = <<>>
    /\ l_yielded = <<>>
    /\ l_overtaken = FALSE
    /\ n_ls = 0
    /\ n_catalog = 0
    /\ n_files = 0
    /\ partition_by = None
    /\ start_period = None
    /\ end_period = None
    /\ ppc = "idle"
    /\ pyear = 0
    /\ pmonth = 0
    /\ pout = <<>>
    /\ perr = None
    /\ f_tag_dir = None
    /\ f_tag = None
    /\ f_partitions = <<>>
    /\ f_pc = "idle"
    /\ f_result = None
    /\ f_iter = Nothing
    /\ r_tag_locations = None
    /\ r_dry_run = FALSE
    /\ r_files = <<>>
    /\ r_pc = "idle"
    /\ r_todo = <<>>
    /\ r_all = <<>>
    /\ r_read = <<>>
    /\ r_combined = <<>>
    /\ r_result = None
    /\ r_err = None
    /\ j_series = <<>>
    /\ j_start = 0
    /\ j_end = 0
    /\ j_resolution = 0
    /\ j_aggs = None
    /\ j_method = None
    /\ j_limit = Nothing
    /\ j_pc = "idle"
    /\ j_i = 0
    /\ j_padded = <<>>
    /\ j_resampled = <<>>
    /\ j_missing = <<>>
    /\ j_metadata = <<>>
    /\ j_result = None
    /\ j_err = None
    /\ s_time_period = None
    /\ s_time_span = None
    /\ s_pc = "idle"
    /\ s_start_time = Nothing
    /\ s_period_end = Nothing
    /\ s_current = Nothing
    /\ s_yielded = <<>>
    /\ s_err = None
    /\ c_lookup_for = Nothing
    /\ c_storage_name = None
    /\ c_ncs_lookup = Nothing
    /\ c_max_file_size = Nothing
    /\ c_partition_by = Nothing
    /\ c_dl_base_path = None
    /\ c_pc = "idle"
    /\ c_err = None
    /\ self_lookup_for = Nothing
    /\ self_storage_name = None
    /\ self_ncs_lookup = Nothing
    /\ self_partition_by = Nothing
    /\ t_tag = None
    /\ t_dry_run = FALSE
    /\ t_tag_dir = Nothing
    /\ t_err = None
    /\ t_result = Nothing

Spec == Init /\ [][Next]_vars

\* read_tag_locations called on any located files
ReadInit ==
    /\ r_tag_locations \in {TagLocations(ReadTag, locations) : locations \in ReadLocations}
    /\ r_dry_run \in BOOLEAN
    /\ r_files \in [{ReadPath(partition) : partition \in
                        IF r_tag_locations.locations = Nothing THEN {}
                        ELSE DOMAIN Value(r_tag_locations.locations)} -> FileStates]
    /\ r_pc = "call"
    /\ r_todo = <<>>
    /\ r_all = <<>>
    /\ r_read = <<>>
    /\ r_combined = <<>>
    /\ r_result = None
    /\ r_err = None
    /\ partition_by = None
    /\ start_period = None
    /\ end_period = None
    /\ ppc = "idle"
    /\ pyear = 0
    /\ pmonth = 0
    /\ pout = <<>>
    /\ perr = None
    /\ storage_files = <<>>
    /\ ncs_file_types = <<>>
    /\ max_file_size = Nothing
    /\ f_tag_dir = None
    /\ f_tag = None
    /\ f_partitions = <<>>
    /\ f_pc = "idle"
    /\ f_result = None
    /\ f_iter = Nothing
    /\ storage_ls = <<>>
    /\ storage_denied = {}
    /\ l_tags = <<>>
    /\ l_base_dir = None
    /\ l_partitions = <<>>
    /\ l_partitions_iter = <<>>
    /\ l_partitions_tuple = <<>>
    /\ l_threads = Nothing
    /\ l_pc = "idle"
    /\ l_err = None
    /\ l_specs = <<>>
    /\ l_tag_dirs = <<>>
    /\ l_futures = <<>>
    /\ l_yielded = <<>>
    /\ l_overtaken = FALSE
    /\ n_ls = 0
    /\ n_catalog = 0
    /\ n_files = 0
    /\ j_series = <<>>
    /\ j_start = 0
    /\ j_end = 0
    /\ j_resolution = 0
    /\ j_aggs = None
    /\ j_method = None
    /\ j_limit = Nothing
    /\ j_pc = "idle"
    /\ j_i = 0
    /\ j_padded = <<>>
    /\ j_resampled = <<>>
    /\ j_missing = <<>>
    /\ j_metadata = <<>>
    /\ j_result = None
    /\ j_err = None
    /\ s_time_period = None
    /\ s_time_span = None
    /\ s_pc = "idle"
    /\ s_start_time = Nothing
    /\ s_period_end = Nothing
    /\ s_current = Nothing
    /\ s_yielded = <<>>
    /\ s_err = None
    /\ c_lookup_for = Nothing
    /\ c_storage_name = None
    /\ c_ncs_lookup = Nothing
    /\ c_max_file_size = Nothing
    /\ c_partition_by = Nothing
    /\ c_dl_base_path = None
    /\ c_pc = "idle"
    /\ c_err = None
    /\ self_lookup_for = Nothing
    /\ self_storage_name = None
    /\ self_ncs_lookup = Nothing
    /\ self_partition_by = Nothing
    /\ t_tag = None
    /\ t_dry_run = FALSE
    /\ t_tag_dir = Nothing
    /\ t_err = None
    /\ t_result = Nothing

SpecRead == ReadInit /\ [][ReadNext]_vars

\* join_timeseries called on any series
JoinInit ==
    /\ j_series \in
          UNION {{[i \in 1 .. n |-> Series(SeriesNames[i], items[i])] :
                     items \in [1 .. n -> SeriesItems]} : n \in 0 .. Len(SeriesNames)}
    /\ j_start \in StartPoints
    /\ j_end \in EndPoints
    /\ j_resolution \in Resolutions
    /\ j_aggs \in AggregationMethods
    /\ j_method \in InterpolationMethods
    /\ j_limit \in InterpolationLimits
    /\ j_pc = "loop"
    /\ j_i = 1
    /\ j_padded = <<>>
    /\ j_resampled = <<>>
    /\ j_missing = <<>>
    /\ j_metadata = <<>>
    /\ j_result = None
    /\ j_err = None
    /\ s_time_period = None
    /\ s_time_span = None
    /\ s_pc = "idle"
    /\ s_start_time = Nothing
    /\ s_period_end = Nothing
    /\ s_current = Nothing
    /\ s_yielded = <<>>
    /\ s_err = None
    /\ c_lookup_for = Nothing
    /\ c_storage_name = None
    /\ c_ncs_lookup = Nothing
    /\ c_max_file_size = Nothing
    /\ c_partition_by = Nothing
    /\ c_dl_base_path = None
    /\ c_pc = "idle"
    /\ c_err = None
    /\ self_lookup_for = Nothing
    /\ self_storage_name = None
    /\ self_ncs_lookup = Nothing
    /\ self_partition_by = Nothing
    /\ t_tag = None
    /\ t_dry_run = FALSE
    /\ t_tag_dir = Nothing
    /\ t_err = None
    /\ t_result = Nothing
    /\ partition_by = None
    /\ start_period = None
    /\ end_period = None
    /\ ppc = "idle"
    /\ pyear = 0
    /\ pmonth = 0
    /\ pout = <<>>
    /\ perr = None
    /\ storage_files = <<>>
    /\ ncs_file_types = <<>>
    /\ max_file_size = Nothing
    /\ f_tag_dir = None
    /\ f_tag = None
    /\ f_partitions = <<>>
    /\ f_pc = "idle"
    /\ f_result = None
    /\ f_iter = Nothing
    /\ storage_ls = <<>>
    /\ storage_denied = {}
    /\ l_tags = <<>>
    /\ l_base_dir = None
    /\ l_partitions = <<>>
    /\ l_partitions_iter = <<>>
    /\ l_partitions_tuple = <<>>
    /\ l_threads = Nothing
    /\ l_pc = "idle"
    /\ l_err = None
    /\ l_specs = <<>>
    /\ l_tag_dirs = <<>>
    /\ l_futures = <<>>
    /\ l_yielded = <<>>
    /\ l_overtaken = FALSE
    /\ n_ls = 0
    /\ n_catalog = 0
    /\ n_files = 0
    /\ r_tag_locations = None
    /\ r_dry_run = FALSE
    /\ r_files = <<>>
    /\ r_pc = "idle"
    /\ r_todo = <<>>
    /\ r_all = <<>>
    /\ r_read = <<>>
    /\ r_combined = <<>>
    /\ r_result = None
    /\ r_err = None

SpecJoin == JoinInit /\ [][JoinNext]_vars

-----------------------------------------------------------------------------
(* Claims about split_by_partitions *)

\* instants of the calendar lying in [start_period, end_period]
InPeriod == {d \in Datetimes : ~dt_gt(start_period, d) /\ ~dt_gt(d, end_period)}

\* the calendar units having an instant in [start_period, end_period]
IntersectingYears == {YearPartition(d.year) : d \in InPeriod}
IntersectingMonths == {MonthPartition(d.year, d.month) : d \in InPeriod}

StrictlyAscending(s) == \A i \in 1 .. Len(s) - 1 : partition_lt(s[i], s[i + 1])
Range(s) == {s[i] : i \in 1 .. Len(s)}

\* C1: for partition_by YEAR (resp. MONTH) and start_period <= end_period the
\* generator does not fail, and when it is exhausted it has yielded exactly
\* the calendar years (resp. months) that intersect [start_period,
\* end_period], partial units at both ends included, in strictly ascending
\* order (so with no duplicate), and no unit in between is missing.
C1_SplitExact ==
    (partition_by \in {"YEAR", "MONTH"} /\ ~dt_gt(start_period, end_period)) =>
        /\ ppc # "error"
        /\ StrictlyAscending(pout)
        /\ ppc = "done" =>
            Range(pout) = IF partition_by = "YEAR" THEN IntersectingYears
                          ELSE IntersectingMonths

\* a MONTH run over a year boundary with partial years at both ends
C1_Witness ==
    /\ ppc = "done"
    /\ partition_by = "MONTH"
    /\ start_period.year < end_period.year
    /\ start_period.month > 1
    /\ end_period.month < MonthsInYear
    /\ start_period.day > 1
    /\ Len(pout) >= 3

-----------------------------------------------------------------------------
(* Claims about files_lookup (SpecFiles) *)

Min(S) == CHOOSE x \in S : \A y \in S : x <= y

\* the file a configured file type would hold for a partition
CandidateOf(j, partition) ==
    join(f_tag_dir, paths(ncs_file_types[j], quote_tag_name(f_tag.name), partition))

\* an existing, size-compliant file
Accepted(fs, full_path) ==
    /\ full_path \in DOMAIN fs
    /\ (max_file_size = Nothing \/ fs[full_path] <= Value(max_file_size))

\* the configured file types that accept the partition's variant and have
\* an existing, size-compliant file for it
Accepting(partition) ==
    {j \in 1 .. Len(ncs_file_types) :
        /\ StoredAs(ncs_file_types[j], partition)
        /\ Accepted(storage_files, CandidateOf(j, partition))}

\* the reader each file type is bound to
FormatOf(t) == IF t \in {"parquet", "yearly_parquet"} THEN "ParquetFileType" ELSE "CsvFileType"

ResultLocations ==
    IF f_result.locations = Nothing THEN <<>> ELSE Value(f_result.locations)

Requested == Range(f_partitions)

\* C2: when two or more configured file types accept a requested partition
\* and each has an existing, size-compliant file, the Location recorded for
\* the partition is the file of the one that comes first in the configured
\* list.
C2_ProbePriority ==
    f_pc = "done" =>
        \A partition \in Requested :
            Cardinality(Accepting(partition)) >= 2 =>
                /\ partition \in DOMAIN ResultLocations
                /\ ResultLocations[partition].path =
                       CandidateOf(Min(Accepting(partition)), partition)
                /\ ResultLocations[partition].file_type =
                       FormatOf(ncs_file_types[Min(Accepting(partition))])

\* csv configured before yearly_parquet, both files present: csv is chosen
C2_Witness ==
    /\ f_pc = "done"
    /\ ncs_file_types = <<"csv", "yearly_parquet">>
    /\ \E partition \in Requested :
          /\ Accepting(partition) = {1, 2}
          /\ ResultLocations[partition].file_type = "CsvFileType"

Without(fs, full_path) == [q \in DOMAIN fs \ {full_path} |-> fs[q]]

\* C3: a file larger than max_file_size changes nothing: files_lookup
\* returns what it returns on the storage without that file; every located
\* file exists and is within the limit (or there is no limit), and a
\* requested partition with such a file is located.
C3_OversizeAsMissing ==
    f_pc = "done" =>
        /\ \A full_path \in DOMAIN storage_files :
              (max_file_size # Nothing /\ storage_files[full_path] > Value(max_file_size)) =>
                  files_lookup(Without(storage_files, full_path), max_file_size,
                               ncs_file_types, f_tag_dir, f_tag, f_partitions)
                      = f_result
        /\ \A partition \in DOMAIN ResultLocations :
              Accepted(storage_files, ResultLocations[partition].path)
        /\ \A partition \in Requested :
              Accepting(partition) # {} => partition \in DOMAIN ResultLocations

\* the first file type's file is too large, the second one's file is taken
C3_Witness ==
    /\ f_pc = "done"
    /\ max_file_size # Nothing
    /\ Len(ncs_file_types) = 2
    /\ \E partition \in Requested :
          /\ StoredAs(ncs_file_types[1], partition)
          /\ CandidateOf(1, partition) \in DOMAIN storage_files
          /\ storage_files[CandidateOf(1, partition)] > Value(max_file_size)
          /\ Accepting(partition) = {2}
          /\ ResultLocations[partition].path = CandidateOf(2, partition)

\* C4: the located partitions are exactly the requested partitions for
\* which a configured file type accepting the variant has an existing,
\* size-compliant file; the others are absent, without error; every
\* Location carries the partition it is keyed by, and the path and the
\* reader of a configured file type holding such a file.
C4_ExactlyLocated ==
    f_pc = "done" =>
        /\ DOMAIN ResultLocations = {partition \in Requested : Accepting(partition) # {}}
        /\ \A partition \in DOMAIN ResultLocations :
              /\ ResultLocations[partition].partition = partition
              /\ \E j \in Accepting(partition) :
                    /\ ResultLocations[partition].path = CandidateOf(j, partition)
                    /\ ResultLocations[partition].file_type = FormatOf(ncs_file_types[j])

\* two partitions requested, the monthly file exists, the yearly does not
C4_Witness ==
    /\ f_pc = "done"
    /\ Len(f_partitions) = 2
    /\ \E partition \in Requested :
          /\ partition.kind = "MonthPartition"
          /\ partition \in DOMAIN ResultLocations
          /\ ResultLocations[partition].file_type = "ParquetFileType"
    /\ \E partition \in Requested : partition \notin DOMAIN ResultLocations


-----------------------------------------------------------------------------
(* lookup *)

Terminal == {"done", "error"}
ThreadsAtLeast(n) == IF l_threads = Nothing THEN FALSE ELSE Value(l_threads) >= n

\* every pair of tag_dirs, in the order the generator yields them
RECURSIVE AllPairs(_, _)
AllPairs(specs, k) ==
    IF k > Len(specs) THEN <<>>
    ELSE tag_dirs_lookup(specs[k].root, specs[k].tags) \o AllPairs(specs, k + 1)

\* the results of the pairs up to the first one whose resolution raises
RECURSIVE ResolvedFrom(_, _, _)
ResolvedFrom(pairs, i, out) ==
    IF i > Len(pairs) THEN [yielded |-> out, err |-> None]
    ELSE LET r == sequential_lookup(pairs[i], l_partitions)
         IN  IF r.raised THEN [yielded |-> out, err |-> "StorageError"]
             ELSE ResolvedFrom(pairs, i + 1, Append(out, r.value))

\* what lookup yields and raises, as a function of the storage content, the
\* asset catalog, the sensors and the partitions alone
Outcome ==
    LET r == asset_path_specs(l_tags, l_base_dir)
    IN  IF r.err # None THEN [yielded |-> <<>>, err |-> r.err]
        ELSE ResolvedFrom(AllPairs(r.specs, 1), 1, <<>>)

\* C5: for the same storage content, asset catalog, sensors and partitions,
\* a lookup that has ended has yielded the same sequence of TagLocations (and
\* raised the same exception, if any) for threads_count 1, 2 and 10, whatever
\* order the workers of the pool started and completed in: the sequence is
\* the value of a function of these inputs alone.
C5_SameForAnyThreads ==
    (l_pc \in Terminal /\ ThreadsAtLeast(1))
        => [yielded |-> l_yielded, err |-> l_err] = Outcome

\* C5: a lookup with two threads has ended after a later sensor was resolved
\* before an earlier one, with an available and an unavailable result
C5_Witness ==
    /\ l_pc = "done"
    /\ l_threads = Some(2)
    /\ l_overtaken
    /\ \E i, j \in 1 .. Len(l_yielded) : available(l_yielded[i]) /\ ~available(l_yielded[j])

\* the group assets_config_tags_lookup puts a sensor in
GroupOf(tag) == IF falsy(l_base_dir) THEN tag.asset ELSE ""
DirListed(name) ==
    \E k \in 1 .. Len(storage_ls) : storage_ls[k].isdir /\ storage_ls[k].name = name
FirstListed(name) ==
    Min({k \in 1 .. Len(storage_ls) : storage_ls[k].isdir /\ storage_ls[k].name = name})
FirstGroupPos(g) == Min({i \in 1 .. Len(l_tags) : GroupOf(l_tags[i]) = g})
FirstInput(name, g) ==
    Min({i \in 1 .. Len(l_tags) :
            GroupOf(l_tags[i]) = g /\ quote_tag_name(l_tags[i].name) = name})

\* the place of a sensor in the results: its asset's first appearance in the
\* input; then sensors whose directory is listed, by the position of the
\* directory in the listing, before the others, by their position in the input
Rank(tag) ==
    LET name == quote_tag_name(tag.name)
    IN  <<FirstGroupPos(GroupOf(tag)),
          IF DirListed(name) THEN 0 ELSE 1,
          IF DirListed(name) THEN FirstListed(name) ELSE FirstInput(name, GroupOf(tag))>>
rank_lt(a, b) ==
    \/ a[1] < b[1]
    \/ a[1] = b[1] /\ a[2] < b[2]
    \/ a[1] = b[1] /\ a[2] = b[2] /\ a[3] < b[3]

Count(s, x) == Cardinality({i \in 1 .. Len(s) : s[i] = x})

\* C7: a lookup that has ended without an exception has yielded exactly one
\* TagLocations per input sensor: every sensor is the tag of as many results
\* as it has occurrences in the input.
C7_OnePerSensor ==
    (l_pc = "done" /\ ThreadsAtLeast(1))
        => \A tag \in LookupTags :
               Count([i \in 1 .. Len(l_yielded) |-> l_yielded[i].tag], tag) = Count(l_tags, tag)

\* the resolution of a sensor raises: its directory is listed and the
\* storage fails on the files below it
Fails(tag) ==
    /\ DirListed(quote_tag_name(tag.name))
    /\ quote_tag_name(tag.name) \in storage_denied
Failing == {i \in 1 .. Len(l_tags) : Fails(l_tags[i])}

\* C8 as stated: an exception in the resolution of one sensor does not cut
\* the results short, the failing sensor's result is TagLocations(tag, None).
C8_Isolated ==
    (l_pc \in Terminal /\ ThreadsAtLeast(1) /\ l_err # "ValueError")
        => /\ l_pc = "done"
           /\ \A i \in Failing :
                 \E k \in 1 .. Len(l_yielded) :
                     l_yielded[k] = TagLocations(l_tags[i], Nothing)

\* C8, amended: an exception in the resolution of one sensor propagates to
\* the consumer of lookup, for threads_count = 1 and for threads_count > 1:
\* the lookup ends with that exception, having yielded the results of the
\* sensors that precede the first failing sensor in result order and no
\* other, and with no future of the pool left pending or running; without a
\* failing sensor it ends without an exception.
C8_Propagates ==
    (l_pc \in Terminal /\ ThreadsAtLeast(1) /\ l_err # "ValueError")
        => IF Failing = {}
           THEN l_pc = "done" /\ l_err = None
           ELSE /\ l_pc = "error"
                /\ l_err = "StorageError"
                /\ \A i \in 1 .. Len(l_futures) : l_futures[i].state \notin Unfinished
                /\ LET first == CHOOSE i \in Failing :
                                    \A j \in Failing :
                                        ~rank_lt(Rank(l_tags[j]), Rank(l_tags[i]))
                   IN  {Rank(l_yielded[k].tag) : k \in 1 .. Len(l_yielded)}
                         = {Rank(l_tags[i]) : i \in
                               {j \in 1 .. Len(l_tags) :
                                   rank_lt(Rank(l_tags[j]), Rank(l_tags[first]))}}

\* C8: with more than one thread the exception of the first sensor reached
\* the consumer although a sibling's resolution had completed
C8_Witness ==
    /\ l_pc = "error"
    /\ l_err = "StorageError"
    /\ ThreadsAtLeast(2)
    /\ l_yielded = <<>>
    /\ \E i \in 1 .. Len(l_futures) : l_futures[i].state = "done"

\* a sensor assets_config_tags_lookup rejects: empty asset, asset without a
\* catalog entry, catalog entry of another reader
InvalidAsset(tag) ==
    IF tag.asset = "" THEN TRUE
    ELSE IF get_path(tag.asset) = Nothing THEN TRUE
    ELSE Value(get_path(tag.asset)).reader # "ncs_reader"

\* C9: without base_dir, if any sensor of the list has an empty asset, an
\* asset without a catalog entry or an asset of another reader, no storage
\* listing is performed, no file is looked up and nothing is yielded, and
\* the lookup ends with ValueError, even when other sensors are valid.
C9_ValueErrorBeforeListing ==
    (ThreadsAtLeast(1) /\ l_base_dir = None
        /\ \E i \in 1 .. Len(l_tags) : InvalidAsset(l_tags[i]))
        => /\ n_ls = 0
           /\ n_files = 0
           /\ l_yielded = <<>>
           /\ l_tag_dirs = <<>>
           /\ l_futures = <<>>
           /\ l_pc # "done"
           /\ l_pc = "error" => l_err = "ValueError"

\* C9: ValueError for a list whose first sensor is valid and has a listed
\* directory, after the catalog was asked for both assets
C9_Witness ==
    /\ l_pc = "error"
    /\ l_err = "ValueError"
    /\ Len(l_tags) = 2
    /\ ~InvalidAsset(l_tags[1])
    /\ DirListed(quote_tag_name(l_tags[1].name))
    /\ n_catalog = 2

\* C10: lookup with threads_count None, 0 or negative yields nothing, asks
\* the asset catalog nothing, makes no storage call, and what it ends with
\* is ConfigException.
C10_ConfigException ==
    (l_pc # "idle" /\ ~ThreadsAtLeast(1))
        => /\ l_yielded = <<>>
           /\ n_catalog = 0
           /\ n_ls = 0
           /\ n_files = 0
           /\ l_pc \in {"call", "error"}
           /\ l_pc = "error" => l_err = "ConfigException"

\* C10: ConfigException for a negative threads_count and sensors whose
\* directories are listed
C10_Witness ==
    /\ l_pc = "error"
    /\ l_err = "ConfigException"
    /\ l_threads = Some(-1)
    /\ \E i \in 1 .. Len(l_tags) :
          ~InvalidAsset(l_tags[i]) /\ DirListed(quote_tag_name(l_tags[i].name))

\* C11: files_lookup on a sensor directory in which no requested partition
\* has an acceptable file returns a TagLocations whose locations is an
\* empty mapping and not None, so that available() is true.
C11_EmptyNotNone ==
    (f_pc = "done" /\ Requested # {}
        /\ \A partition \in Requested : Accepting(partition) = {})
        => /\ available(f_result)
           /\ f_result.locations = Some(<<>>)

\* the root listed for a sensor: the path of its asset in the catalog, or
\* the base_dir given to lookup
RootOf(tag) ==
    IF ~falsy(l_base_dir) THEN l_base_dir
    ELSE IF tag.asset = "asset" THEN "path" ELSE "path1"

\* the directory of a sensor: the entry of the listing that is a directory
\* and whose name is the percent-encoded name of the sensor, if any
ExpectedDir(tag) ==
    IF DirListed(quote_tag_name(tag.name))
    THEN Some(<<RootOf(tag), quote_tag_name(tag.name)>>)
    ELSE Nothing

\* the (tag, tag_dir) pairs lookup holds
HeldPairs ==
    {l_tag_dirs[i] : i \in 1 .. Len(l_tag_dirs)}
        \cup {l_futures[i].tag_dirs : i \in 1 .. Len(l_futures)}

\* C12: a sensor is matched only to a directory entry of the listed root
\* whose name equals its percent-encoded name; every sensor that is not
\* matched is yielded once as (tag, None), without error, and lookup turns
\* it into TagLocations(tag, None) without running files_lookup for it.
C12_UnmatchedYieldedOnce ==
    ThreadsAtLeast(1) =>
        /\ \A pair \in HeldPairs : pair.dir = ExpectedDir(pair.tag)
        /\ l_pc = "done" =>
              /\ \A i \in 1 .. Len(l_tags) :
                    ~DirListed(quote_tag_name(l_tags[i].name)) =>
                        Count(l_yielded, TagLocations(l_tags[i], Nothing)) = 1
              /\ n_files = Cardinality({k \in 1 .. Len(l_yielded) :
                                           DirListed(quote_tag_name(l_yielded[k].tag.name))})

\* what holds of C12 for every input: the pairs carry the directory of the
\* exactly matching entry or None, a sensor without such an entry is never
\* yielded with locations, and files_lookup runs only for matched sensors
C12_ExactMatch ==
    ThreadsAtLeast(1) =>
        /\ \A pair \in HeldPairs : pair.dir = ExpectedDir(pair.tag)
        /\ \A k \in 1 .. Len(l_yielded) :
              ~DirListed(quote_tag_name(l_yielded[k].tag.name)) =>
                  l_yielded[k] = TagLocations(l_yielded[k].tag, Nothing)
        /\ l_pc = "done" =>
              n_files = Cardinality({k \in 1 .. Len(l_yielded) :
                                        DirListed(quote_tag_name(l_yielded[k].tag.name))})

-----------------------------------------------------------------------------
(* Claims about read_tag_locations (SpecRead) *)

Combined == r_pc = "done" /\ r_all # <<>>
Occurrences(ts) == {i \in 1 .. Len(r_combined) : r_combined[i].ts = ts}
Max(S) == CHOOSE x \in S : \A y \in S : y <= x

\* C13: when the concatenated rows contain a timestamp more than once,
\* within one file or across the files of several partitions, the returned
\* series contains it exactly once, with the value of its last occurrence
\* in concatenation order; it contains no other timestamp.
C13_KeepLast ==
    Combined =>
        /\ \A i \in 1 .. Len(r_combined) :
              LET ts == r_combined[i].ts
                  at == {k \in 1 .. Len(r_result.items) : r_result.items[k][1] = ts}
              IN  /\ Cardinality(at) = 1
                  /\ \A k \in at :
                        r_result.items[k][2] = r_combined[Max(Occurrences(ts))].value
        /\ \A k \in 1 .. Len(r_result.items) : Occurrences(r_result.items[k][1]) # {}

\* C13: a timestamp twice in the first file with different values and once
\* more in the second file, with a value other than the one before it
C13_Witness ==
    /\ Combined
    /\ Len(r_all) = 2
    /\ Len(r_all[1]) = 2
    /\ r_all[1][1].ts = r_all[1][2].ts
    /\ r_all[1][1].value # r_all[1][2].value
    /\ \E i \in 1 .. Len(r_all[2]) :
          /\ r_all[2][i].ts = r_all[1][1].ts
          /\ r_all[2][i].value # r_all[1][2].value
          /\ \A j \in i + 1 .. Len(r_all[2]) : r_all[2][j].ts # r_all[2][i].ts

\* the located partitions, and those whose file stat and open find
Located ==
    IF r_tag_locations.locations = Nothing THEN {}
    ELSE DOMAIN Value(r_tag_locations.locations)
FileOf(partition) == r_files[Value(r_tag_locations.locations)[partition].path]
Readable == {partition \in Located : FileOf(partition).state = "ok"}
GoodRows(partition) ==
    {i \in 1 .. Len(FileOf(partition).rows) : FileOf(partition).rows[i].status = 192}

-----------------------------------------------------------------------------
(* Claims about join_timeseries (SpecJoin) *)

\* join_timeseries has returned a table
Returned == j_pc = "done"

\* join_timeseries has ended, with a table or an exception
JoinEnded == j_pc \in {"done", "raised"}

\* C15: the table join_timeseries returns contains no NaN, whatever NaN the
\* padding at the start and end points, empty buckets and unfilled gaps put
\* into the resampled frames.
C15_NoNaN ==
    Returned =>
        \A k \in 1 .. Len(j_result.rows) :
            /\ Len(j_result.rows[k].cells) = Len(j_result.columns)
            /\ \A c \in 1 .. Len(j_result.columns) : j_result.rows[k].cells[c] # NaN

\* C15: a table with rows is returned although a series was padded with NaN
\* at both points and a bucket of it stayed NaN after the fill
C15_Witness ==
    /\ Returned
    /\ j_result.rows # <<>>
    /\ \E i \in 1 .. Len(j_series) :
          /\ Len(j_padded[i].items) = Len(j_series[i].items) + 2
          /\ Len(j_resampled[i].rows)
                < Len(resample_agg(j_padded[i], j_resolution, j_aggs).rows)

\* the input series without a sample, and their names in input order
IsEmpty(series) == series.items = <<>>
Empties ==
    LET empty == SelectSeq(j_series, IsEmpty)
    IN  [k \in 1 .. Len(empty) |-> empty[k].name]

\* a series with samples whose first timestamp is before the start point or
\* whose last timestamp is after the end point
OutOfRange(series) ==
    /\ ~IsEmpty(series)
    /\ \/ series.items[1].ts < j_start
       \/ series.items[Len(series.items)].ts > j_end

\* the interpolation arguments are rejected: an unknown method, or a limit
\* shorter than the resolution
BadMethod == j_method \notin {"linear_interpolation", "ffill"}
BadLimit == IF j_limit = Nothing THEN FALSE ELSE Value(j_limit) < j_resolution

\* the input series, by position, at which _resample raises something
\* other than IndexError
Failing_series ==
    {i \in 1 .. Len(j_series) :
        /\ ~IsEmpty(j_series[i])
        /\ (OutOfRange(j_series[i]) \/ BadMethod \/ BadLimit)}

\* the exception of a failing series: the range is checked before the
\* interpolation arguments
ErrorOf(series) == IF OutOfRange(series) THEN "RuntimeError" ELSE "ValueError"

\* the series attempted so far are exactly the first n of the input
Attempted(n) ==
    DOMAIN j_metadata \ {"aggregate_metadata"} = {j_series[i].name : i \in 1 .. n}

\* C16 as stated: with an empty series in the input, every series is
\* attempted and the call ends with InsufficientDataError naming all empty
\* series in input order
C16_AllEmptiesNamed ==
    (JoinEnded /\ \E i \in 1 .. Len(j_series) : IsEmpty(j_series[i])) =>
        /\ j_err = "InsufficientDataError"
        /\ j_missing = Empties
        /\ Attempted(Len(j_series))

\* C16: with an empty series in the input the call never returns a table.
\* When no series with samples raises, every series is attempted and the
\* call ends with InsufficientDataError naming all empty series in input
\* order; otherwise the exception of the first series that raises ends the
\* call at that series and the series behind it are not attempted.
C16_EmptiesBatched ==
    (JoinEnded /\ \E i \in 1 .. Len(j_series) : IsEmpty(j_series[i])) =>
        IF Failing_series = {}
        THEN /\ j_err = "InsufficientDataError"
             /\ j_missing = Empties
             /\ Attempted(Len(j_series))
        ELSE LET first == CHOOSE i \in Failing_series : \A k \in Failing_series : i <= k
             IN  /\ j_err = ErrorOf(j_series[first])
                 /\ Attempted(first)

\* C16: two empty series, both named, in input order
C16_Witness ==
    /\ j_pc = "raised"
    /\ j_err = "InsufficientDataError"
    /\ Len(j_series) = 2
    /\ j_missing = <<j_series[1].name, j_series[2].name>>

\* a series with samples that _resample turns into a frame without a row
ZeroRows(series) ==
    /\ ~IsEmpty(series)
    /\ LET resampled == resample(series, j_start, j_end, j_resolution, j_aggs,
                                 j_method, j_limit)
       IN  resampled.raised = None /\ resampled.frame.rows = <<>>

\* a series with samples, none of them a number
AllNaN(series) ==
    /\ ~IsEmpty(series)
    /\ \A i \in 1 .. Len(series.items) : series.items[i].v = NaN

\* nothing else is wrong with the call: no series is empty, none raises
OtherwiseFine ==
    /\ Failing_series = {}
    /\ \A i \in 1 .. Len(j_series) : ~IsEmpty(j_series[i])

\* C17 as stated: a series with samples that yields no row after
\* resampling, fill and NaN removal makes join_timeseries raise
\* InsufficientDataError naming it
C17_ZeroRowsInsufficient ==
    (JoinEnded /\ OtherwiseFine) =>
        \A i \in 1 .. Len(j_series) :
            ZeroRows(j_series[i]) =>
                /\ j_err = "InsufficientDataError"
                /\ \E k \in 1 .. Len(j_missing) : j_missing[k] = j_series[i].name

\* C17: a series with samples that yields no row after resampling, fill and
\* NaN removal (a series of NaN only, and no other) is never reported as
\* missing data: join_timeseries returns a table without rows, and its
\* metadata give 0 as the resampled length of the series and as the joined
\* length. Only series without a sample are named by InsufficientDataError.
C17_ZeroRowsReturned ==
    /\ \A k \in 1 .. Len(j_missing) :
          \E i \in 1 .. Len(j_series) :
              IsEmpty(j_series[i]) /\ j_series[i].name = j_missing[k]
    /\ \A i \in 1 .. Len(j_series) :
          (~IsEmpty(j_series[i]) /\ ~OutOfRange(j_series[i]) /\ ~BadMethod /\ ~BadLimit)
              => (ZeroRows(j_series[i]) <=> AllNaN(j_series[i]))
    /\ (JoinEnded /\ OtherwiseFine) =>
          \A i \in 1 .. Len(j_series) :
              ZeroRows(j_series[i]) =>
                  /\ Returned
                  /\ j_err = None
                  /\ j_result.rows = <<>>
                  /\ j_metadata[j_series[i].name].resampled_length = 0
                  /\ j_metadata["aggregate_metadata"].joined_length = 0

\* C17: a series of NaN only beside a series that has rows; a table without
\* rows is returned
C17_Witness ==
    /\ Returned
    /\ Len(j_series) = 2
    /\ AllNaN(j_series[1])
    /\ j_resampled[2].rows # <<>>
    /\ j_result.rows = <<>>

\* the series with samples among those the loop is through, in input order:
\* the series that were handed to resample()
Resampled_inputs ==
    SelectSeq(SubSeq(j_series, 1, j_i - 1), LAMBDA series : ~IsEmpty(series))

\* a series with one NaN sample in front when it starts after the start
\* point and one behind when it ends before the end point, unchanged at a
\* bound it meets
Padded(series) ==
    (IF series.items[1].ts > j_start THEN <<Sample(j_start, NaN)>> ELSE <<>>)
        \o series.items
        \o (IF series.items[Len(series.items)].ts < j_end
            THEN <<Sample(j_end, NaN)>> ELSE <<>>)

\* C18 as stated: whenever a series with samples starts before the start
\* point or ends after the end point, join_timeseries ends with
\* RuntimeError and without a table
C18_OutOfRangeRuntimeError ==
    (JoinEnded /\ \E i \in 1 .. Len(j_series) : OutOfRange(j_series[i])) =>
        /\ j_err = "RuntimeError"
        /\ j_pc = "raised"

\* C18: whenever a series with samples starts before the start point or
\* ends after the end point, join_timeseries returns no table; it ends with
\* RuntimeError when the interpolation method and limit are valid, or when
\* no series with samples precedes the first such series; otherwise with
\* the ValueError the rejected interpolation arguments raise at the first
\* series with samples. A series handed to resample() has one NaN sample
\* added at the start point when it starts after it, one at the end point
\* when it ends before it, and is unchanged at a bound it meets.
C18_OutOfRangeFatal ==
    /\ (JoinEnded /\ \E i \in 1 .. Len(j_series) : OutOfRange(j_series[i])) =>
          /\ j_pc = "raised"
          /\ j_err = ErrorOf(j_series[CHOOSE i \in Failing_series :
                                           \A k \in Failing_series : i <= k])
          /\ (~BadMethod /\ ~BadLimit) => j_err = "RuntimeError"
    /\ Len(j_padded) = Len(Resampled_inputs)
    /\ \A k \in 1 .. Len(j_padded) :
          /\ ~OutOfRange(Resampled_inputs[k])
          /\ j_padded[k] = Series(Resampled_inputs[k].name, Padded(Resampled_inputs[k]))

\* C18: the first series lies inside the range and was padded at both
\* points, the second is out of range and ends the call
C18_Witness ==
    /\ j_pc = "raised"
    /\ j_err = "RuntimeError"
    /\ Len(j_series) = 2
    /\ OutOfRange(j_series[2])
    /\ Len(j_padded) = 1
    /\ Len(j_padded[1].items) = Len(j_series[1].items) + 2

\* the columns of a table over the input series: the series names alone,
\* or every (series name, aggregation method) pair, series by series
FlatColumns == [i \in 1 .. Len(j_series) |-> <<j_series[i].name>>]
TwoLevelColumns ==
    concat([i \in 1 .. Len(j_series) |->
               [m \in 1 .. Len(j_aggs.names) |-> <<j_series[i].name, j_aggs.names[m]>>]])

\* C19: a table returned for exactly one aggregation method, given by name
\* or as a list of one, has flat columns named by the series; a table
\* returned for two or more methods has two-level columns (series name,
\* aggregation method); both in input series order.
C19_ColumnsByMethodCount ==
    Returned =>
        j_result.columns = IF Len(j_aggs.names) = 1 THEN FlatColumns ELSE TwoLevelColumns

\* C19, what the code does: the columns are flat exactly when the method is
\* given by name, and two-level for every list of methods, a list of one
\* included
C19_ColumnsByArgumentType ==
    Returned =>
        j_result.columns = IF j_aggs.list THEN TwoLevelColumns ELSE FlatColumns

\* the positions of the input series with samples
NonEmpty == {i \in 1 .. Len(j_series) : ~IsEmpty(j_series[i])}

\* C20 as stated: every call with an interpolation method other than
\* linear_interpolation and ffill ends with ValueError, whatever the series
C20_BadMethodValueError ==
    (JoinEnded /\ BadMethod) => j_err = "ValueError"

\* C20: a call with an interpolation method other than linear_interpolation
\* and ffill never returns a table. It ends with ValueError when the first
\* series with samples lies inside the range (empty series before it are
\* passed over, no InsufficientDataError is raised) and when there is no
\* series at all; with RuntimeError when the first series with samples is
\* out of range; with InsufficientDataError when there are series and all
\* are empty.
C20_BadMethodFails ==
    (JoinEnded /\ BadMethod) =>
        /\ j_pc = "raised"
        /\ j_err = IF j_series = <<>> THEN "ValueError"
                   ELSE IF NonEmpty = {} THEN "InsufficientDataError"
                   ELSE ErrorOf(j_series[CHOOSE i \in NonEmpty : \A k \in NonEmpty : i <= k])

\* C20: an empty series first, then a series inside the range: the unknown
\* method ends the call with ValueError, the empty series is not reported
C20_Witness ==
    /\ j_pc = "raised"
    /\ BadMethod
    /\ ~BadLimit
    /\ j_err = "ValueError"
    /\ Len(j_series) = 2
    /\ IsEmpty(j_series[1])
    /\ j_missing = <<j_series[1].name>>
    /\ ~OutOfRange(j_series[2])

\* floor(interpolation_limit / resolution) for an interpolation_limit given
Bound ==
    CHOOSE b \in 0 .. Value(j_limit) :
        b * j_resolution <= Value(j_limit) /\ Value(j_limit) < (b + 1) * j_resolution

\* the fill is bounded and its bound is not positive
ShortLimit == IF j_limit = Nothing THEN FALSE ELSE Bound <= 0

\* the labels of the buckets of a padded series that hold, in every column,
\* a number or a NaN with a number at most Bound buckets before it (any
\* number of buckets before it when interpolation_limit is None)
FilledLabels(padded) ==
    LET rows == resample_agg(padded, j_resolution, j_aggs).rows
    IN  {rows[r].label : r \in
            {q \in 1 .. Len(rows) :
                \A c \in 1 .. Len(rows[q].cells) :
                    \/ rows[q].cells[c] # NaN
                    \/ \E p \in 1 .. q - 1 :
                          /\ rows[p].cells[c] # NaN
                          /\ IF j_limit = Nothing THEN TRUE ELSE q - p <= Bound}}

\* C21 as stated: a call (on at least one series, with a valid method)
\* fails with ValueError exactly when floor(interpolation_limit /
\* resolution) <= 0
C21_ValueErrorIffShort ==
    (JoinEnded /\ ~BadMethod /\ j_series # <<>>) =>
        (j_err = "ValueError" <=> ShortLimit)

\* C21: every resampled frame keeps exactly the buckets that hold a number
\* or lie at most floor(interpolation_limit / resolution) buckets behind
\* one, and all buckets behind a number when interpolation_limit is None;
\* no frame is produced with a bound <= 0, and None is never rejected. With
\* a bound <= 0 the call never returns a table: it ends with ValueError
\* when the first series with samples lies inside the range (and when there
\* is no series), with RuntimeError when that series is out of range, with
\* InsufficientDataError when all series are empty.
C21_FillBound ==
    /\ \A k \in 1 .. Len(j_resampled) :
          /\ {j_resampled[k].rows[r].label : r \in 1 .. Len(j_resampled[k].rows)}
                = FilledLabels(j_padded[k])
          /\ ~ShortLimit
    /\ (JoinEnded /\ ShortLimit) =>
          /\ j_pc = "raised"
          /\ j_err = IF j_series = <<>> THEN "ValueError"
                     ELSE IF NonEmpty = {} THEN "InsufficientDataError"
                     ELSE ErrorOf(j_series[CHOOSE i \in NonEmpty : \A k \in NonEmpty : i <= k])
    /\ (JoinEnded /\ j_limit = Nothing /\ ~BadMethod /\ j_series # <<>>
           /\ \A i \in 1 .. Len(j_series) :
                 ~IsEmpty(j_series[i]) /\ ~OutOfRange(j_series[i]))
          => Returned

\* C21: a limit of 3 and a resolution of 2 give a bound of 1: the series
\* has a number in the first of its two buckets only, and the table has
\* both rows
C21_Witness ==
    /\ Returned
    /\ j_limit = Some(3)
    /\ j_resolution = 2
    /\ Len(j_series) = 1
    /\ Len(j_series[1].items) = 1
    /\ Len(j_padded[1].items) = 2
    /\ Len(j_result.rows) = 2

-----------------------------------------------------------------------------
(* Further claims about split_by_partitions (SpecPart) *)

\* the position of an instant on the time line
Instant(d) == (d.year * 100 + d.month) * 100 + d.day

\* C22: with start_period > end_period the generator yields nothing and its
\* first step raises ValueError, for YEAR, MONTH and any other partition_by;
\* with start_period = end_period and partition_by YEAR or MONTH it does not
\* fail and yields exactly the one partition that contains the instant.
C22_InvalidRange ==
    /\ Instant(start_period) > Instant(end_period) =>
          /\ pout = <<>>
          /\ ppc \in {"start", "error"}
          /\ ppc = "error" => perr = "ValueError"
    /\ (start_period = end_period /\ partition_by \in {"YEAR", "MONTH"}) =>
          /\ ppc # "error"
          /\ perr = None
          /\ ppc = "done" =>
                pout = <<IF partition_by = "YEAR" THEN YearPartition(start_period.year)
                         ELSE MonthPartition(start_period.year, start_period.month)>>

\* C22: start_period is later than end_period by the day only, in the same
\* month; the generator has raised
C22_Witness ==
    /\ ppc = "error"
    /\ perr = "ValueError"
    /\ partition_by = "MONTH"
    /\ start_period.year = end_period.year
    /\ start_period.month = end_period.month
    /\ start_period.day > end_period.day
    /\ pout = <<>>

-----------------------------------------------------------------------------
(* Further claims about files_lookup and TagLocations (SpecFiles) *)

\* the partition keys of the TagLocations returned
Keys == IF f_result.locations = Nothing THEN {} ELSE DOMAIN Value(f_result.locations)

\* the calendar position of a year or month partition
PartitionKey(p) == p.year * 100 + p.month

\* the outcome of partitions() and of the iteration as it should be: every
\* key once, in strictly ascending order, the triples in the same order
InAscendingOrder(iter) ==
    /\ iter.raised = None
    /\ {iter.partitions[k] : k \in 1 .. Len(iter.partitions)} = Keys
    /\ Len(iter.partitions) = Cardinality(Keys)
    /\ \A k \in 1 .. Len(iter.partitions) - 1 :
          PartitionKey(iter.partitions[k]) < PartitionKey(iter.partitions[k + 1])
    /\ Len(iter.triples) = Len(iter.partitions)
    /\ \A k \in 1 .. Len(iter.triples) :
          iter.triples[k] = <<f_result.tag, iter.partitions[k],
                              Value(f_result.locations)[iter.partitions[k]]>>

\* C23 as stated: for every TagLocations files_lookup returns, partitions()
\* gives the keys in strictly ascending order and the iteration the triples
\* in the same order
C23_Ascending ==
    f_iter # Nothing => InAscendingOrder(Value(f_iter))

\* C23: for a TagLocations whose keys are all year partitions or all month
\* partitions, partitions() gives the keys in strictly ascending order and
\* the iteration the triples in the same order, whatever the order of the
\* request; with keys of both kinds both raise TypeError; with locations
\* None, available() is false and both are empty.
C23_AscendingOneKind ==
    f_iter # Nothing =>
        /\ IF \E a, b \in Keys : a.kind # b.kind
           THEN Value(f_iter).raised = "TypeError"
           ELSE InAscendingOrder(Value(f_iter))
        /\ f_result.locations = Nothing =>
              /\ ~available(f_result)
              /\ Value(f_iter).partitions = <<>>
              /\ Value(f_iter).triples = <<>>

\* C23: two years requested in descending order, both located, iterated in
\* ascending order
C23_Witness ==
    /\ f_iter # Nothing
    /\ f_partitions = <<YearPartition(FirstYear + 1), YearPartition(FirstYear)>>
    /\ Value(f_iter).partitions = <<YearPartition(FirstYear), YearPartition(FirstYear + 1)>>
    /\ Len(Value(f_iter).triples) = 2

\* the configured file types, by position, that accept the partition's
\* variant
Probes(partition) ==
    {j \in 1 .. Len(ncs_file_types) : StoredAs(ncs_file_types[j], partition)}

\* the file of the first file type accepting the partition exists and is
\* larger than max_file_size
FirstProbeOversize(partition) ==
    /\ max_file_size # Nothing
    /\ Probes(partition) # {}
    /\ CandidateOf(Min(Probes(partition)), partition) \in DOMAIN storage_files
    /\ storage_files[CandidateOf(Min(Probes(partition)), partition)] > Value(max_file_size)

\* C24 as stated: when the file of the first file type accepting a
\* partition exists and is too large, the partition gets no Location
C24_RejectedAndStop ==
    f_pc = "done" =>
        \A partition \in Requested :
            FirstProbeOversize(partition) => partition \notin DOMAIN ResultLocations

\* C24: when the file of the first file type accepting a partition exists
\* and is too large, the file types behind it are still tried: the
\* partition gets the file of the next accepting file type that has an
\* existing file within the limit, and no Location only when there is none.
C24_RejectedFallsThrough ==
    f_pc = "done" =>
        \A partition \in Requested :
            FirstProbeOversize(partition) =>
                IF Accepting(partition) = {}
                THEN partition \notin DOMAIN ResultLocations
                ELSE /\ partition \in DOMAIN ResultLocations
                     /\ Min(Accepting(partition)) > Min(Probes(partition))
                     /\ ResultLocations[partition].path =
                            CandidateOf(Min(Accepting(partition)), partition)
                     /\ ResultLocations[partition].file_type =
                            FormatOf(ncs_file_types[Min(Accepting(partition))])

\* C24: the csv file of a year is too large, the yearly parquet file
\* configured behind it is within the limit and is the Location of the year
C24_Witness ==
    /\ f_pc = "done"
    /\ \E i, k \in 1 .. Len(ncs_file_types) :
          /\ i < k
          /\ ncs_file_types[i] = "csv"
          /\ ncs_file_types[k] = "yearly_parquet"
    /\ \E partition \in Requested :
          /\ partition.kind = "YearPartition"
          /\ FirstProbeOversize(partition)
          /\ partition \in DOMAIN ResultLocations
          /\ ResultLocations[partition].file_type = "ParquetFileType"

-----------------------------------------------------------------------------
(* Further claims about read_tag_locations (SpecRead) *)

\* C25: the series read_tag_locations returns after reading has strictly
\* increasing timestamps (so no timestamp twice), whatever the rows of the
\* located files.
C25_StrictlyIncreasing ==
    (r_pc = "done" /\ ~r_dry_run) =>
        \A k \in 1 .. Len(r_result.items) - 1 :
            r_result.items[k][1] < r_result.items[k + 1][1]

\* C25, what the code ensures: no timestamp twice in the series, and
\* strictly increasing timestamps when the rows come from one file
C25_NoDuplicateTimestamp ==
    (r_pc = "done" /\ ~r_dry_run) =>
        /\ \A k, n \in 1 .. Len(r_result.items) :
              k # n => r_result.items[k][1] # r_result.items[n][1]
        /\ Len(r_all) <= 1 =>
              \A k \in 1 .. Len(r_result.items) - 1 :
                  r_result.items[k][1] < r_result.items[k + 1][1]

(* Further claims about lookup (Spec) *)

\* the futures whose call of the mapper has been executed to its end
Executed == {i \in 1 .. Len(l_futures) : l_futures[i].state \in {"done", "failed", "yielded"}}
ExecutedTags == [i \in 1 .. Len(l_futures) |->
                    IF i \in Executed THEN Some(l_futures[i].tag_dirs.tag) ELSE Nothing]

\* C26 as stated: a lookup with threads_count > 1 that has ended without an
\* exception has executed the unit of work of each input sensor exactly
\* once: every sensor is the tag of as many executed mapper calls as it has
\* occurrences in the input.
C26_EachSensorOnce ==
    (l_pc = "done" /\ multi_thread)
        => \A tag \in LookupTags : Count(ExecutedTags, Some(tag)) = Count(l_tags, tag)

\* C26, the pool: with threads_count = N > 1 at most N mapper calls are
\* executing in every state.
C26_PoolBounded ==
    multi_thread => Cardinality(Running(l_futures)) <= Value(l_threads)

\* C26, the pool at its bound: two calls are executing and a third one waits
C26_PoolFull ==
    /\ l_threads = Some(2)
    /\ Cardinality(Running(l_futures)) = 2
    /\ \E i \in 1 .. Len(l_futures) : l_futures[i].state = "pending"

\* C26, the pairs: a lookup with threads_count > 1 that has ended without an
\* exception has executed the mapper for every submitted (tag, tag_dir) pair,
\* and files_lookup once for every pair that carries a directory.
C26_EachPairOnce ==
    (l_pc = "done" /\ multi_thread)
        => /\ Executed = 1 .. Len(l_futures)
           /\ n_files = Cardinality({i \in 1 .. Len(l_futures) :
                                        l_futures[i].tag_dirs.dir # Nothing})

\* C26, the partitions: the iterable is read to its end before a call is
\* submitted, and every executed call has resolved its sensor against all
\* the partitions the iterable held.
C26_SamePartitions ==
    \A i \in Executed :
        /\ l_partitions_iter = <<>>
        /\ l_partitions_tuple = l_partitions
        /\ LET r == thread_pool_lookup_mapper(l_futures[i].tag_dirs, l_partitions)
           IN  /\ r.raised = (l_futures[i].state = "failed")
               /\ ~r.raised => l_futures[i].value = r.value

\* C26, the partitions: two workers have each found a file of the same partition
C26_SamePartitionsSeen ==
    \E i, j \in Executed :
        /\ i # j
        /\ available(l_futures[i].value)
        /\ available(l_futures[j].value)

(* Further claims about join_timeseries (SpecJoin) *)

\* join_timeseries, the loop of lines 199-215 from the i-th series on: the
\* exception that leaves the loop, if any, the frames kept, the names
\* noted as missing data and the metadata
RECURSIVE join_loop(_, _, _)
join_loop(series_iterable, i, acc) ==
    IF i > Len(series_iterable) THEN acc
    ELSE LET series == series_iterable[i]
             r == resample(series, j_start, j_end, j_resolution, j_aggs, j_method, j_limit)
             noted == dict_set(acc.metadata, series.name,
                               [original_length |-> Len(series.items)])
         IN  IF r.raised = "IndexError"
             THEN join_loop(series_iterable, i + 1,
                            [acc EXCEPT !.missing = append_missing(acc.missing, series.name),
                                        !.metadata = noted])
             ELSE IF r.raised # None
             THEN [acc EXCEPT !.err = r.raised, !.metadata = noted]
             ELSE join_loop(series_iterable, i + 1,
                            [acc EXCEPT !.resampled = Append(acc.resampled, r.frame),
                                        !.metadata =
                                            dict_set(acc.metadata, series.name,
                                                     [original_length |-> Len(series.items),
                                                      resampled_length |-> Len(r.frame.rows)])])

\* join_timeseries on the series in the given order, the other arguments
\* being those of the call: the kind of the exception or None, the table
\* and the metadata returned
join_timeseries(series_iterable) ==
    LET acc == join_loop(series_iterable, 1,
                         [err |-> None, resampled |-> <<>>, missing |-> <<>>,
                          metadata |-> <<>>])
        joined_df == concat_inner(acc.resampled)
        dropped_na == dropna(joined_df)
    IN  IF acc.err # None THEN [err |-> acc.err, table |-> Nothing, metadata |-> Nothing]
        ELSE IF acc.missing # <<>>
        THEN [err |-> "InsufficientDataError", table |-> Nothing, metadata |-> Nothing]
        ELSE IF acc.resampled = <<>>
        THEN [err |-> "ValueError", table |-> Nothing, metadata |-> Nothing]
        ELSE [err |-> None,
              table |-> Some(dropped_na),
              metadata |-> Some(dict_set(acc.metadata, "aggregate_metadata",
                                         [joined_length |-> Len(joined_df.rows),
                                          dropped_na_length |-> Len(dropped_na.rows)]))]

\* the outcome of the call the specification has run to its end
Outcome_of_call ==
    IF j_pc = "done"
    THEN [err |-> None, table |-> Some(j_result), metadata |-> Some(j_metadata)]
    ELSE [err |-> j_err, table |-> Nothing, metadata |-> Nothing]

\* the same series in every order
Orders(series_iterable) ==
    {[i \in 1 .. Len(series_iterable) |-> series_iterable[p[i]]] :
        p \in {q \in [1 .. Len(series_iterable) -> 1 .. Len(series_iterable)] :
                  \A a, b \in 1 .. Len(series_iterable) : q[a] = q[b] => a = b}}

\* two tables have the same time index and the same values under each column
SameTable(t, u) ==
    /\ [k \in 1 .. Len(t.rows) |-> t.rows[k].label] = [k \in 1 .. Len(u.rows) |-> u.rows[k].label]
    /\ {t.columns[c] : c \in 1 .. Len(t.columns)} = {u.columns[c] : c \in 1 .. Len(u.columns)}
    /\ Len(t.columns) = Len(u.columns)
    /\ \A c \in 1 .. Len(t.columns) : \A d \in 1 .. Len(u.columns) :
           t.columns[c] = u.columns[d] =>
               \A k \in 1 .. Len(t.rows) : t.rows[k].cells[c] = u.rows[k].cells[d]

\* two calls have the same outcome: both return, tables and metadata being
\* equal, or both raise the same kind of exception
SameOutcome(a, b) ==
    /\ a.err = b.err
    /\ a.err = None =>
           /\ SameTable(Value(a.table), Value(b.table))
           /\ a.metadata = b.metadata

\* both a series out of the resampling range and rejected interpolation
\* arguments: each series raises an exception of its own kind
TwoKindsOfError ==
    /\ BadMethod \/ BadLimit
    /\ \E i \in 1 .. Len(j_series) : OutOfRange(j_series[i])
    /\ \E i \in 1 .. Len(j_series) : ~IsEmpty(j_series[i]) /\ ~OutOfRange(j_series[i])

\* C27 as stated: for every order of the same input series the call has
\* the same outcome: the same kind of error, or the same time index, the
\* same values under each series name and equal metadata.
C27_OrderIndependent ==
    JoinEnded =>
        \A other \in Orders(j_series) : SameOutcome(Outcome_of_call, join_timeseries(other))

\* C27: for every order of the same input series the call has the same
\* outcome, except that with both an out-of-range series and rejected
\* interpolation arguments in the input the call raises RuntimeError or
\* ValueError, whichever series comes first.
C27_OrderIndependentButFirstError ==
    JoinEnded =>
        \A other \in Orders(j_series) :
            \/ SameOutcome(Outcome_of_call, join_timeseries(other))
            \/ /\ TwoKindsOfError
               /\ j_err \in {"RuntimeError", "ValueError"}
               /\ join_timeseries(other).err \in {"RuntimeError", "ValueError"}

\* C27: a table with rows was returned for two series that differ, one of
\* them losing a row of its own to dropna before the join
C27_Witness ==
    /\ Returned
    /\ Len(j_series) = 2
    /\ j_series[1].items # j_series[2].items
    /\ j_result.rows # <<>>
    /\ Len(j_resampled[1].rows) # Len(j_resampled[2].rows)

-----------------------------------------------------------------------------
(* period.py: split_period_by_span *)

\* the time spans: the two of the module, and two subclasses of TimeSpan
\* whose add_span does not move forward
TimeSpans == {"YearTimeSpan", "MonthTimeSpan", "SameTimeSpan", "BackTimeSpan"}
CalendarSpans == {"YearTimeSpan", "MonthTimeSpan"}

\* datetime + relativedelta(months=1), the instant inside the month kept
next_month(dt) ==
    IF dt.month = MonthsInYear THEN [dt EXCEPT !.year = dt.year + 1, !.month = 1]
    ELSE [dt EXCEPT !.month = dt.month + 1]

\* datetime - relativedelta(months=1)
previous_month(dt) ==
    IF dt.month = 1 THEN [dt EXCEPT !.year = dt.year - 1, !.month = MonthsInYear]
    ELSE [dt EXCEPT !.month = dt.month - 1]

\* an alignment that keeps the instant inside the month
alignment_KeepDay(time_span, dt) ==
    CASE time_span = "YearTimeSpan" -> [dt EXCEPT !.month = 1]
      [] time_span = "MonthTimeSpan" -> dt
      [] OTHER -> dt

\* TimeSpan.alignment: the first instant of the year or of the month
alignment(time_span, dt) ==
    CASE time_span = "YearTimeSpan" -> [dt EXCEPT !.month = 1, !.day = 1]
      [] time_span = "MonthTimeSpan" -> [dt EXCEPT !.day = 1]
      [] OTHER -> dt

\* TimeSpan.add_span
add_span(time_span, dt) ==
    CASE time_span = "YearTimeSpan" -> [dt EXCEPT !.year = dt.year + 1]
      [] time_span = "MonthTimeSpan" -> next_month(dt)
      [] time_span = "SameTimeSpan" -> dt
      [] OTHER -> previous_month(dt)

\* dt - time.resolution: the instant before dt
before_resolution(dt) ==
    IF dt.day > 1 THEN [dt EXCEPT !.day = dt.day - 1]
    ELSE [previous_month(dt) EXCEPT !.day = MaxDay]

\* datetime.__le__
dt_le(a, b) == ~dt_gt(a, b)

SpanTimePeriod(period_start, time_span) ==
    [kind |-> "SpanTimePeriod", period_start |-> period_start,
     period_end |-> None, time_span |-> time_span]

\* ExactTimePeriod.__init__ raises ValueError
exact_invalid(period_start, period_end) == ~dt_gt(period_end, period_start)

ExactTimePeriod(period_start, period_end) ==
    [kind |-> "ExactTimePeriod", period_start |-> period_start,
     period_end |-> period_end, time_span |-> None]

get_period_start(time_period) == time_period.period_start

\* SpanTimePeriod.get_period_end / ExactTimePeriod.get_period_end
get_period_end(time_period) ==
    IF time_period.kind = "SpanTimePeriod"
    THEN before_resolution(add_span(time_period.time_span, time_period.period_start))
    ELSE time_period.period_end

\* the time periods that can be constructed
TimePeriods ==
    {ExactTimePeriod(a, b) : <<a, b>> \in {x \in Datetimes \X Datetimes : ~exact_invalid(x[1], x[2])}}
        \cup {SpanTimePeriod(a, ts) : <<a, ts>> \in Datetimes \X CalendarSpans}

\* first next(): the lines up to the loop
SplitBegin ==
    /\ s_pc = "call"
    /\ s_start_time' = Some(alignment(s_time_span, get_period_start(s_time_period)))
    /\ s_period_end' = Some(get_period_end(s_time_period))
    /\ s_current' = Some(SpanTimePeriod(alignment(s_time_span,
                                                  get_period_start(s_time_period)),
                                        s_time_span))
    /\ s_pc' = "yield"
    /\ UNCHANGED <<notPeriod, periodArgs, s_yielded, s_err>>

\* yield current
SplitYield ==
    /\ s_pc = "yield"
    /\ s_yielded' = Append(s_yielded, Value(s_current))
    /\ s_pc' = "resumed"
    /\ UNCHANGED <<notPeriod, periodArgs, s_start_time, s_period_end, s_current, s_err>>

\* next(): add_span did not move forward, ValueError
SplitRaise ==
    /\ s_pc = "resumed"
    /\ dt_le(add_span(s_time_span, Value(s_start_time)), Value(s_start_time))
    /\ s_err' = "ValueError"
    /\ s_pc' = "raised"
    /\ UNCHANGED <<notPeriod, periodArgs, s_start_time, s_period_end, s_current, s_yielded>>

\* next(): the new start is after the end of the period, break
SplitBreak ==
    /\ s_pc = "resumed"
    /\ ~dt_le(add_span(s_time_span, Value(s_start_time)), Value(s_start_time))
    /\ dt_gt(add_span(s_time_span, Value(s_start_time)), Value(s_period_end))
    /\ s_pc' = "done"
    /\ UNCHANGED <<notPeriod, periodArgs, s_start_time, s_period_end, s_current, s_yielded,
                   s_err>>

\* next(): the loop goes on with the next span
SplitContinue ==
    /\ s_pc = "resumed"
    /\ ~dt_le(add_span(s_time_span, Value(s_start_time)), Value(s_start_time))
    /\ ~dt_gt(add_span(s_time_span, Value(s_start_time)), Value(s_period_end))
    /\ s_start_time' = Some(add_span(s_time_span, Value(s_start_time)))
    /\ s_current' = Some(SpanTimePeriod(add_span(s_time_span, Value(s_start_time)),
                                        s_time_span))
    /\ s_pc' = "yield"
    /\ UNCHANGED <<notPeriod, periodArgs, s_period_end, s_yielded, s_err>>

PeriodNext ==
    \/ SplitBegin
    \/ SplitYield
    \/ SplitRaise
    \/ SplitBreak
    \/ SplitContinue

\* split_period_by_span called with any period and span
PeriodInit ==
    /\ s_time_period \in TimePeriods
    /\ s_time_span \in TimeSpans
    /\ s_pc = "call"
    /\ s_start_time = Nothing
    /\ s_period_end = Nothing
    /\ s_current = Nothing
    /\ s_yielded = <<>>
    /\ s_err = None
    /\ j_series = <<>>
    /\ j_start = 0
    /\ j_end = 0
    /\ j_resolution = 0
    /\ j_aggs = None
    /\ j_method = None
    /\ j_limit = Nothing
    /\ j_pc = "idle"
    /\ j_i = 0
    /\ j_padded = <<>>
    /\ j_resampled = <<>>
    /\ j_missing = <<>>
    /\ j_metadata = <<>>
    /\ j_result = None
    /\ j_err = None
    /\ c_lookup_for = Nothing
    /\ c_storage_name = None
    /\ c_ncs_lookup = Nothing
    /\ c_max_file_size = Nothing
    /\ c_partition_by = Nothing
    /\ c_dl_base_path = None
    /\ c_pc = "idle"
    /\ c_err = None
    /\ self_lookup_for = Nothing
    /\ self_storage_name = None
    /\ self_ncs_lookup = Nothing
    /\ self_partition_by = Nothing
    /\ t_tag = None
    /\ t_dry_run = FALSE
    /\ t_tag_dir = Nothing
    /\ t_err = None
    /\ t_result = Nothing
    /\ partition_by = None
    /\ start_period = None
    /\ end_period = None
    /\ ppc = "idle"
    /\ pyear = 0
    /\ pmonth = 0
    /\ pout = <<>>
    /\ perr = None
    /\ storage_files = <<>>
    /\ ncs_file_types = <<>>
    /\ max_file_size = Nothing
    /\ f_tag_dir = None
    /\ f_tag = None
    /\ f_partitions = <<>>
    /\ f_pc = "idle"
    /\ f_result = None
    /\ f_iter = Nothing
    /\ storage_ls = <<>>
    /\ storage_denied = {}
    /\ l_tags = <<>>
    /\ l_base_dir = None
    /\ l_partitions = <<>>
    /\ l_partitions_iter = <<>>
    /\ l_partitions_tuple = <<>>
    /\ l_threads = Nothing
    /\ l_pc = "idle"
    /\ l_err = None
    /\ l_specs = <<>>
    /\ l_tag_dirs = <<>>
    /\ l_futures = <<>>
    /\ l_yielded = <<>>
    /\ l_overtaken = FALSE
    /\ n_ls = 0
    /\ n_catalog = 0
    /\ n_files = 0
    /\ r_tag_locations = None
    /\ r_dry_run = FALSE
    /\ r_files = <<>>
    /\ r_pc = "idle"
    /\ r_todo = <<>>
    /\ r_all = <<>>
    /\ r_read = <<>>
    /\ r_combined = <<>>
    /\ r_result = None
    /\ r_err = None

\* the consumer iterates the generator to its end
SpecPeriod == PeriodInit /\ [][PeriodNext]_vars /\ WF_vars(PeriodNext)

(* Claims about split_period_by_span (SpecPeriod) *)

\* split_period_by_span has ended, by exhaustion or with an exception
SplitEnded == s_pc \in {"done", "raised"}

\* the first instant of a calendar unit of the span
CalendarAligned(time_span, dt) ==
    /\ dt.day = 1
    /\ time_span = "YearTimeSpan" => dt.month = 1

\* the unit that starts at dt contains the instant
Contains(time_span, dt, instant) ==
    /\ dt_le(dt, instant)
    /\ dt_gt(add_span(time_span, dt), instant)

\* the yielded periods are consecutive calendar units of the span, from the
\* one that contains period_start to the last one that starts at or before
\* period_end
SpansOfPeriod ==
    /\ s_yielded # <<>>
    /\ \A k \in 1 .. Len(s_yielded) :
           /\ s_yielded[k].kind = "SpanTimePeriod"
           /\ s_yielded[k].time_span = s_time_span
           /\ CalendarAligned(s_time_span, s_yielded[k].period_start)
    /\ Contains(s_time_span, s_yielded[1].period_start, get_period_start(s_time_period))
    /\ \A k \in 1 .. Len(s_yielded) - 1 :
           /\ s_yielded[k + 1].period_start = add_span(s_time_span, s_yielded[k].period_start)
           /\ dt_gt(s_yielded[k + 1].period_start, s_yielded[k].period_start)
    /\ Contains(s_time_span, s_yielded[Len(s_yielded)].period_start,
                get_period_end(s_time_period))

\* C28: split_period_by_span, iterated to its end, ends for every time
\* period and time span: by exhaustion for a year or month span, having
\* yielded the consecutive, ascending calendar units from the one that
\* contains period_start to the last one whose start is <= period_end; with
\* ValueError after the first period for a span whose add_span does not move
\* the start strictly forward.
C28_Terminates ==
    <>(/\ SplitEnded
       /\ s_time_span \in CalendarSpans => (s_pc = "done" /\ SpansOfPeriod)
       /\ s_time_span \notin CalendarSpans =>
              (s_pc = "raised" /\ s_err = "ValueError" /\ Len(s_yielded) = 1))

\* C28: the months of a period that crosses the end of a year were yielded,
\* the period starting and ending inside a month
C28_Witness ==
    /\ s_pc = "done"
    /\ s_time_span = "MonthTimeSpan"
    /\ Len(s_yielded) >= 3
    /\ get_period_start(s_time_period).day > 1
    /\ get_period_end(s_time_period).day > 1
    /\ s_yielded[1].period_start.year < s_yielded[Len(s_yielded)].period_start.year

\* C28: ValueError was raised for a span that does not move forward
C28_Raised ==
    /\ s_pc = "raised"
    /\ s_time_span = "SameTimeSpan"

-----------------------------------------------------------------------------
(* data_provider/ncs_reader.py: NcsReader.__init__ and read_tag_files *)

\* storage.name
StorageName == "dlstore"

\* ncs_file_type.DEFAULT_TYPE_NAMES
DEFAULT_TYPE_NAMES == <<"parquet", "yearly_parquet", "csv">>

\* an object: its class and, for an NcsLookup, its attributes
Object(class, storage_name, file_types, size) ==
    [class |-> class, storage_name |-> storage_name, ncs_file_types |-> file_types,
     max_file_size |-> size]

\* an argument of __init__ with its type
Typed(type, value) == [type |-> type, value |-> value]

\* load_ncs_file_types: ConfigException for a name that is not registered
load_ncs_file_types(type_names) ==
    [raised |-> \E i \in 1 .. Len(type_names) : type_names[i] \notin TypeNames,
     value |-> type_names]

\* NcsLookup.__init__ as called by NcsReader.create_ncs_lookup
create_ncs_lookup(storage_name, lookup_for, size) ==
    Object("NcsLookup", storage_name, load_ncs_file_types(lookup_for).value, size)

\* isinstance(ncs_lookup, NcsLookup)
isinstance_NcsLookup(ncs_lookup) == ncs_lookup.class = "NcsLookup"

\* NcsReader.prepare_partition_by: PartitionBy has no find_by_name, so a
\* str raises AttributeError
prepare_partition_by(by) ==
    IF by.type = "str" THEN [err |-> "AttributeError", value |-> Nothing]
    ELSE [err |-> None, value |-> Some(by)]

\* NcsReader.__init__, lines 78-95: the exception raised, if any, and the
\* attributes set
NcsReader(lookup_for, storage_name, ncs_lookup, size, by) ==
    LET for == IF lookup_for = Nothing THEN DEFAULT_TYPE_NAMES ELSE Value(lookup_for)
        name == IF storage_name = None THEN StorageName ELSE storage_name
        failed(e) == [err |-> e, lookup_for |-> Nothing, storage_name |-> None,
                      ncs_lookup |-> Nothing, partition_by |-> Nothing]
    IN  IF ncs_lookup = Nothing /\ load_ncs_file_types(for).raised
        THEN failed("ConfigException: Can not find file type")
        ELSE IF ncs_lookup # Nothing /\ isinstance_NcsLookup(Value(ncs_lookup))
        THEN failed("ConfigException: ncs_lookup should be instance of NcsLookup")
        ELSE IF prepare_partition_by(by).err # None
        THEN failed(prepare_partition_by(by).err)
        ELSE [err |-> None,
              lookup_for |-> Some(for),
              storage_name |-> name,
              ncs_lookup |-> IF ncs_lookup = Nothing
                             THEN Some(create_ncs_lookup(name, for, size))
                             ELSE ncs_lookup,
              partition_by |-> prepare_partition_by(by).value]

\* NcsReader.base_path_from_asset
base_path_from_asset(asset) ==
    IF falsy(asset) THEN [err |-> None, path |-> None]
    ELSE IF get_path(asset) = Nothing THEN [err |-> None, path |-> None]
    ELSE IF reader_mismatch(Value(get_path(asset))) THEN [err |-> "ValueError", path |-> None]
    ELSE [err |-> None, path |-> path_spec_full_path(Value(get_path(asset)))]

\* read_tag_files, lines 287-292: the resolved base path
tag_base_path(dl_base_path, tag) ==
    IF ~falsy(dl_base_path) THEN [err |-> None, path |-> dl_base_path]
    ELSE IF base_path_from_asset(tag.asset).err # None THEN base_path_from_asset(tag.asset)
    ELSE IF falsy(base_path_from_asset(tag.asset).path) THEN [err |-> "ValueError", path |-> None]
    ELSE base_path_from_asset(tag.asset)

\* read_tag_files, lines 295-301: tag_dir after the loop
found_tag_dir(base_path, tag) ==
    LET pairs == tag_dirs_lookup(base_path, <<tag>>)
        hits == {i \in 1 .. Len(pairs) : pairs[i].tag = tag}
    IN  IF hits = {} THEN Nothing
        ELSE pairs[CHOOSE i \in hits : \A j \in hits : i <= j].dir

\* `if tag_dir:` of line 302
tag_dir_truthy(tag_dir) == tag_dir # Nothing

\* files_lookup(None, tag, partitions) followed by read_tag_locations:
\* storage.join(None, path) raises TypeError, or it returns a path, no file
\* is found under it and the empty series of the tag is returned
read_without_dir(tag) ==
    {[err |-> "TypeError", tag_dir |-> Nothing, result |-> Nothing],
     [err |-> None, tag_dir |-> Nothing, result |-> Some(Series(tag.name, <<>>))]}

\* read_tag_files: the outcomes of the call
read_tag_files(ncs_lookup, dl_base_path, tag) ==
    LET base == tag_base_path(dl_base_path, tag)
        raised(e, dir) == {[err |-> e, tag_dir |-> dir, result |-> Nothing]}
    IN  IF base.err # None THEN raised(base.err, Nothing)
        ELSE IF ~isinstance_NcsLookup(ncs_lookup) THEN raised("AttributeError", Nothing)
        ELSE IF tag_dir_truthy(found_tag_dir(base.path, tag))
        THEN raised("FileNotFoundError", found_tag_dir(base.path, tag))
        ELSE read_without_dir(tag)

\* the caller constructs the reader
ReaderConstruct ==
    /\ c_pc = "call"
    /\ LET r == NcsReader(c_lookup_for, c_storage_name, c_ncs_lookup, c_max_file_size,
                          c_partition_by)
       IN  /\ c_err' = r.err
           /\ self_lookup_for' = r.lookup_for
           /\ self_storage_name' = r.storage_name
           /\ self_ncs_lookup' = r.ncs_lookup
           /\ self_partition_by' = r.partition_by
           /\ c_pc' = IF r.err = None THEN "constructed" ELSE "raised"
    /\ UNCHANGED <<notReader, readerArgs, t_tag_dir, t_err, t_result>>

\* the caller calls read_tag_files on the reader
ReadTagFiles ==
    /\ c_pc = "constructed"
    /\ \E r \in read_tag_files(Value(self_ncs_lookup), c_dl_base_path, t_tag) :
           /\ t_err' = r.err
           /\ t_tag_dir' = r.tag_dir
           /\ t_result' = r.result
    /\ c_pc' = "read"
    /\ UNCHANGED <<notReader, readerArgs, c_err, self_lookup_for, self_storage_name,
                   self_ncs_lookup, self_partition_by>>

ReaderNext ==
    \/ ReaderConstruct
    \/ ReadTagFiles

\* the arguments of NcsReader
LookupFors == {Nothing, Some(<<"csv">>), Some(<<"yearly_parquet", "csv">>), Some(<<"xlsx">>)}
StorageNames == {None, "other"}
NcsLookups ==
    {Nothing,
     Some(Object("NcsLookup", StorageName, <<"csv">>, Some(SizeLimit))),
     Some(Object("object", None, <<>>, Nothing))}
PartitionBys ==
    {Typed("PartitionBy", "MONTH"), Typed("PartitionBy", "YEAR"), Typed("str", "month")}

\* NcsReader constructed with any arguments, read_tag_files called on it
ReaderInit ==
    /\ c_lookup_for \in LookupFors
    /\ c_storage_name \in StorageNames
    /\ c_ncs_lookup \in NcsLookups
    /\ c_max_file_size \in {Nothing, Some(SizeLimit)}
    /\ c_partition_by \in PartitionBys
    /\ c_dl_base_path \in {None, "base/path"}
    /\ c_pc = "call"
    /\ c_err = None
    /\ self_lookup_for = Nothing
    /\ self_storage_name = None
    /\ self_ncs_lookup = Nothing
    /\ self_partition_by = Nothing
    /\ t_tag \in LookupTags
    /\ t_dry_run \in BOOLEAN
    /\ t_tag_dir = Nothing
    /\ t_err = None
    /\ t_result = Nothing
    /\ storage_ls \in SeqsUpTo(ListingEntries, MaxList)
    /\ s_time_period = None
    /\ s_time_span = None
    /\ s_pc = "idle"
    /\ s_start_time = Nothing
    /\ s_period_end = Nothing
    /\ s_current = Nothing
    /\ s_yielded = <<>>
    /\ s_err = None
    /\ j_series = <<>>
    /\ j_start = 0
    /\ j_end = 0
    /\ j_resolution = 0
    /\ j_aggs = None
    /\ j_method = None
    /\ j_limit = Nothing
    /\ j_pc = "idle"
    /\ j_i = 0
    /\ j_padded = <<>>
    /\ j_resampled = <<>>
    /\ j_missing = <<>>
    /\ j_metadata = <<>>
    /\ j_result = None
    /\ j_err = None
    /\ partition_by = None
    /\ start_period = None
    /\ end_period = None
    /\ ppc = "idle"
    /\ pyear = 0
    /\ pmonth = 0
    /\ pout = <<>>
    /\ perr = None
    /\ storage_files = <<>>
    /\ ncs_file_types = <<>>
    /\ max_file_size = Nothing
    /\ f_tag_dir = None
    /\ f_tag = None
    /\ f_partitions = <<>>
    /\ f_pc = "idle"
    /\ f_result = None
    /\ f_iter = Nothing
    /\ storage_denied = {}
    /\ l_tags = <<>>
    /\ l_base_dir = None
    /\ l_partitions = <<>>
    /\ l_partitions_iter = <<>>
    /\ l_partitions_tuple = <<>>
    /\ l_threads = Nothing
    /\ l_pc = "idle"
    /\ l_err = None
    /\ l_specs = <<>>
    /\ l_tag_dirs = <<>>
    /\ l_futures = <<>>
    /\ l_yielded = <<>>
    /\ l_overtaken = FALSE
    /\ n_ls = 0
    /\ n_catalog = 0
    /\ n_files = 0
    /\ r_tag_locations = None
    /\ r_dry_run = FALSE
    /\ r_files = <<>>
    /\ r_pc = "idle"
    /\ r_todo = <<>>
    /\ r_all = <<>>
    /\ r_read = <<>>
    /\ r_combined = <<>>
    /\ r_result = None
    /\ r_err = None

SpecReader == ReaderInit /\ [][ReaderNext]_vars

(* Claims about NcsReader (SpecReader) *)

\* the constructor has ended, with a reader or an exception
ConstructorEnded == c_pc # "call"
Constructed == c_pc \in {"constructed", "read"}

\* the caller supplied an NcsLookup instance
InstanceGiven ==
    IF c_ncs_lookup = Nothing THEN FALSE ELSE isinstance_NcsLookup(Value(c_ncs_lookup))

\* the caller supplied something that is not an NcsLookup
OtherGiven ==
    IF c_ncs_lookup = Nothing THEN FALSE ELSE ~isinstance_NcsLookup(Value(c_ncs_lookup))

NotAnInstance == "ConfigException: ncs_lookup should be instance of NcsLookup"

\* C29 as stated: a caller-supplied NcsLookup instance is kept as the
\* lookup of the reader (the other arguments being valid), and the
\* ConfigException about ncs_lookup is raised only for an ncs_lookup that is
\* given and is not an NcsLookup.
C29_InstanceKept ==
    ConstructorEnded =>
        /\ (InstanceGiven /\ c_partition_by.type # "str") =>
               (Constructed /\ self_ncs_lookup = c_ncs_lookup)
        /\ c_err = NotAnInstance => OtherGiven

\* C29, what the constructor does: the NcsLookup instance is rejected with
\* the ConfigException, and whatever else is given is kept.
C29_InstanceRejected ==
    ConstructorEnded =>
        /\ InstanceGiven => (c_pc = "raised" /\ c_err = NotAnInstance)
        /\ (OtherGiven /\ Constructed) => self_ncs_lookup = c_ncs_lookup

\* C29, no ncs_lookup given: the reader that was constructed holds an
\* NcsLookup made of the storage name (storage.name when none is given),
\* the file types of lookup_for (the default names when None) and
\* max_file_size.
C29_CreatedWhenNone ==
    (Constructed /\ c_ncs_lookup = Nothing) =>
        self_ncs_lookup =
            Some(Object("NcsLookup",
                        IF c_storage_name = None THEN StorageName ELSE c_storage_name,
                        IF c_lookup_for = Nothing THEN DEFAULT_TYPE_NAMES
                        ELSE Value(c_lookup_for),
                        c_max_file_size))

\* C29: a lookup was created for a reader with its own storage name and
\* file types
C29_Created ==
    /\ Constructed
    /\ c_ncs_lookup = Nothing
    /\ c_storage_name # None
    /\ c_lookup_for # Nothing

\* read_tag_files was called and a base path was resolved on a reader
\* whose lookup is an NcsLookup
ReadWithBasePath ==
    /\ c_pc = "read"
    /\ isinstance_NcsLookup(Value(self_ncs_lookup))
    /\ \/ ~falsy(c_dl_base_path)
       \/ /\ ~falsy(t_tag.asset)
          /\ get_path(t_tag.asset) # Nothing
          /\ ~reader_mismatch(Value(get_path(t_tag.asset)))

\* the storage lists a directory named as the tag under the base path
TagDirListed == DirListed(quote_tag_name(t_tag.name))

\* C30 as stated: with a base path resolved, read_tag_files raises
\* FileNotFoundError exactly when the directory of the tag is not found
\* under it, and returns a series when it is found.
C30_NotFoundIffNoDir ==
    ReadWithBasePath =>
        /\ (t_err = "FileNotFoundError") = ~TagDirListed
        /\ TagDirListed => (t_err = None /\ t_result # Nothing)

\* C30, what read_tag_files does: FileNotFoundError exactly when the
\* directory of the tag is found; when it is not found, files_lookup is
\* called with tag_dir None.
C30_NotFoundIffDir ==
    ReadWithBasePath =>
        /\ (t_err = "FileNotFoundError") = TagDirListed
        /\ TagDirListed => (t_tag_dir # Nothing /\ t_result = Nothing)
        /\ ~TagDirListed =>
               \/ t_err = "TypeError"
               \/ t_err = None /\ t_result = Some(Series(t_tag.name, <<>>))

\* C30: FileNotFoundError was raised for a tag whose directory is listed
C30_RaisedForListedDir ==
    /\ ReadWithBasePath
    /\ TagDirListed
    /\ t_err = "FileNotFoundError"

=============================================================================
